---- MODULE Spec2Model ----
(***************************************************************************)
(* A model of the dependency graph engine of docassemble-dag:              *)
(*   DependencyGraph (graph.py): construction, find_cycles, direct and     *)
(*   transitive queries, find_path, find_roots;                            *)
(*   graph_operations.py: topological_sort, get_execution_order.           *)
(*                                                                         *)
(* An entity mapping is a Python dict: it is modelled by the sequence of   *)
(* its keys in insertion order.  Up to renaming, every mapping with k keys *)
(* is the mapping with keys NameList[1..k] in that order, so Init draws    *)
(* the keys as a prefix of NameList and draws the edge list freely.        *)
(* An edge is the pair of its from_node and to_node.                       *)
(*                                                                         *)
(* A behaviour of Spec constructs one graph from the drawn arguments and   *)
(* then makes one call on it; op and result record the call and its        *)
(* outcome (a returned value or a raised error).                           *)
(*                                                                         *)
(* The other components have a specification each, over the same           *)
(* variables: SpecCompare and SpecRevise (comparison.py), SpecValidate      *)
(* (validation.py), SpecMerge (utils.merge_graphs), SpecExtract and        *)
(* SpecImplicit (parser.extract_edges), SpecLayers (get_dependency_layers  *)
(* step by step), SpecBatch (utils.parse_multiple_files), SpecInstances    *)
(* (the transitive-dependents cache of several graphs) and SpecJson (the   *)
(* JSON exchange structure).                                               *)
(***************************************************************************)
EXTENDS Integers, Sequences, FiniteSets, TLC

VARIABLES nodes, edges, pc, graph, cache, op, result,
          violations,       \* GraphValidator.violations
          old_graph,        \* the first argument of compare_graphs
          graphs,           \* the argument of merge_graphs
          edges_seen,       \* extract_edges: the (from, to) pairs already kept
          first_found,      \* extract_edges: the first discovery of each pair
          steps,            \* extract_edges: the extraction rules applied so far
          depth_map,        \* get_dependency_layers: the memoized depths
          frames,           \* get_dependency_layers: the calls of calculate_depth in progress
          files,            \* parse_multiple_files: what parsing each file gives
          instances,        \* the DependencyGraph instances queried side by side
          caches,           \* the _transitive_dependents_cache of each instance
          first_results     \* the first successful answer to each query of each instance

validatorVars == <<violations>>
compareVars == <<old_graph>>
mergeVars == <<graphs>>
extractVars == <<edges_seen, first_found, steps>>
layerVars == <<depth_map, frames>>
batchVars == <<files>>
instanceVars == <<instances, caches, first_results>>

vars == <<nodes, edges, pc, graph, cache, op, result,
          validatorVars, compareVars, mergeVars, extractVars,
          layerVars, batchVars, instanceVars>>

\* ---------------------------------------------------------------- bounds
\* the longest edge list tried
MaxEdges == 3

\* the entity names, in the insertion order of the entity mapping
NameList == <<"A", "B", "C">>
\* a name that is never a key of the entity mapping
NoSuchName == "Z"

\* ------------------------------------------------------------ generalities
Range(s) == {s[i] : i \in 1..Len(s)}

\* list.index(x): the first position of x
Index(s, x) == CHOOSE i \in 1..Len(s) : s[i] = x /\ \A j \in 1..(i - 1) : s[j] # x

\* the orders in which the elements of a Python set may be listed
Listings(S) ==
    {s \in [1..Cardinality(S) -> S] : \A i, j \in 1..Cardinality(S) : s[i] = s[j] => i = j}

\* dict.get(key, []) on an adjacency index
DictGet(d, k) == IF k \in DOMAIN d THEN d[k] ELSE <<>>

\* defaultdict(list)[k].append(v)
DictAppend(d, k, v) ==
    [x \in DOMAIN d \cup {k} |-> IF x = k THEN Append(DictGet(d, k), v) ELSE d[x]]

EmptyDict == [x \in {} |-> <<>>]

Edge(u, v) == [from_node |-> u, to_node |-> v]

\* the result of a call: a returned value or a raised error
Returned(v) == [kind |-> "ok", value |-> v, node_name |-> "", cycles |-> <<>>]
ReturnedNone == [kind |-> "None", value |-> <<>>, node_name |-> "", cycles |-> <<>>]
GraphError(name) == [kind |-> "GraphError", value |-> <<>>, node_name |-> name, cycles |-> <<>>]
CycleError(cs) == [kind |-> "CycleError", value |-> <<>>, node_name |-> "", cycles |-> cs]
NoResult == [kind |-> "none", value |-> <<>>, node_name |-> "", cycles |-> <<>>]

NoGraph == [nodes |-> <<>>, edges |-> <<>>, adj |-> EmptyDict, rev |-> EmptyDict]
NoOp == [name |-> "", args |-> <<>>]

\* ------------------------------------------------- DependencyGraph.__init__
\* the first edge endpoint that is not a key, scanning from_node then to_node
RECURSIVE FirstBadEndpoint(_, _, _)
FirstBadEndpoint(ns, es, i) ==
    IF i > Len(es) THEN ""
    ELSE IF es[i].from_node \notin Range(ns) THEN es[i].from_node
    ELSE IF es[i].to_node \notin Range(ns) THEN es[i].to_node
    ELSE FirstBadEndpoint(ns, es, i + 1)

\* variant: only the from_node of each edge is checked
HasBadSource(ns, es) ==
    \E i \in 1..Len(es) : es[i].from_node \notin Range(ns)

HasBadEndpoint(ns, es) ==
    \E i \in 1..Len(es) : es[i].from_node \notin Range(ns) \/ es[i].to_node \notin Range(ns)

RECURSIVE BuildAdj(_, _, _)
BuildAdj(es, i, d) ==
    IF i > Len(es) THEN d
    ELSE BuildAdj(es, i + 1, DictAppend(d, es[i].from_node, es[i].to_node))

RECURSIVE BuildRev(_, _, _)
BuildRev(es, i, d) ==
    IF i > Len(es) THEN d
    ELSE BuildRev(es, i + 1, DictAppend(d, es[i].to_node, es[i].from_node))

NewGraph(ns, es) ==
    [nodes |-> ns, edges |-> es,
     adj |-> BuildAdj(es, 1, EmptyDict), rev |-> BuildRev(es, 1, EmptyDict)]

\* ------------------------------------------------ direct neighbours, roots
get_dependencies(g, name) == DictGet(g.rev, name)

get_dependents(g, name) == DictGet(g.adj, name)

find_roots(g) == SelectSeq(g.nodes, LAMBDA n : Len(DictGet(g.rev, n)) = 0)

\* ------------------------------------------------------------- find_cycles
RECURSIVE cycles_dfs(_, _, _, _), cycles_neighbors(_, _, _, _, _)

\* variant: the visited test comes before the on-stack test
cycles_dfs_visited_first(g, node, path, st) ==
    IF node \in st.visited THEN st
    ELSE IF node \in st.stack
    THEN [st EXCEPT !.cycles =
             Append(@, SubSeq(path, Index(path, node), Len(path)) \o <<node>>)]
    ELSE LET st1 == [st EXCEPT !.visited = @ \cup {node}, !.stack = @ \cup {node}]
             st2 == cycles_neighbors(g, DictGet(g.adj, node), 1, path \o <<node>>, st1)
         IN [st2 EXCEPT !.stack = @ \ {node}]

\* st is the closure state of the traversal: visited, stack, cycles
cycles_dfs(g, node, path, st) ==
    IF node \in st.stack
    THEN [st EXCEPT !.cycles =
             Append(@, SubSeq(path, Index(path, node), Len(path)) \o <<node>>)]
    ELSE IF node \in st.visited THEN st
    ELSE LET st1 == [st EXCEPT !.visited = @ \cup {node}, !.stack = @ \cup {node}]
             st2 == cycles_neighbors(g, DictGet(g.adj, node), 1, path \o <<node>>, st1)
         IN [st2 EXCEPT !.stack = @ \ {node}]
cycles_neighbors(g, nbrs, i, path, st) ==
    IF i > Len(nbrs) THEN st
    ELSE cycles_neighbors(g, nbrs, i + 1, path, cycles_dfs(g, nbrs[i], path, st))

RECURSIVE cycles_roots(_, _, _)
cycles_roots(g, i, st) ==
    IF i > Len(g.nodes) THEN st
    ELSE IF g.nodes[i] \notin st.visited
         THEN cycles_roots(g, i + 1, cycles_dfs(g, g.nodes[i], <<>>, st))
         ELSE cycles_roots(g, i + 1, st)

find_cycles(g) == cycles_roots(g, 1, [visited |-> {}, stack |-> {}, cycles |-> <<>>]).cycles

has_cycles(g) == Len(find_cycles(g)) > 0

\* -------------------------------------------------------- topological_sort
RECURSIVE count_in_degree(_, _, _)

\* variant: the count is kept for the edge's from_node
count_out_degree(es, i, in_degree) ==
    IF i > Len(es) THEN in_degree
    ELSE count_in_degree(es, i + 1,
             [in_degree EXCEPT ![es[i].from_node] = @ + 1])

\* in_degree: one count per edge of graph.edges, duplicates included
count_in_degree(es, i, in_degree) ==
    IF i > Len(es) THEN in_degree
    ELSE count_in_degree(es, i + 1,
             [in_degree EXCEPT ![es[i].to_node] = @ + 1])

initial_queue(g, in_degree) == SelectSeq(g.nodes, LAMBDA n : in_degree[n] = 0)

\* the for loop over graph.get_dependents(node); k is the loop state
RECURSIVE update_dependents(_, _, _)
update_dependents(deps, i, k) ==
    IF i > Len(deps) THEN k
    ELSE LET d == deps[i]
             deg == [k.in_degree EXCEPT ![d] = @ - 1]
         IN update_dependents(deps, i + 1,
                [in_degree |-> deg,
                 queue |-> IF deg[d] = 0 THEN Append(k.queue, d) ELSE k.queue])

\* the while loop: queue.pop(0), result.append(node)
RECURSIVE kahn_loop(_, _, _, _)
kahn_loop(g, queue, in_degree, sorted) ==
    IF queue = <<>> THEN sorted
    ELSE LET node == Head(queue)
             k == update_dependents(get_dependents(g, node), 1,
                      [in_degree |-> in_degree, queue |-> Tail(queue)])
         IN kahn_loop(g, k.queue, k.in_degree, Append(sorted, node))

\* variant: the first CycleError is raised without its cycle list
topological_sort_bare_error(g) ==
    IF has_cycles(g) THEN CycleError(<<>>)
    ELSE LET in_degree == count_in_degree(g.edges, 1, [n \in Range(g.nodes) |-> 0])
             sorted == kahn_loop(g, initial_queue(g, in_degree), in_degree, <<>>)
         IN IF Len(sorted) # Len(g.nodes) THEN CycleError(find_cycles(g))
            ELSE Returned(sorted)

topological_sort(g) ==
    IF has_cycles(g) THEN CycleError(find_cycles(g))
    ELSE LET in_degree == count_in_degree(g.edges, 1, [n \in Range(g.nodes) |-> 0])
             sorted == kahn_loop(g, initial_queue(g, in_degree), in_degree, <<>>)
         IN IF Len(sorted) # Len(g.nodes) THEN CycleError(find_cycles(g))
            ELSE Returned(sorted)

\* ------------------------------------------------ transitive reachability
RECURSIVE deps_dfs(_, _, _), deps_each(_, _, _, _)

\* variant: the traversal follows the forward adjacency
deps_dfs_forward(g, node, st) ==
    IF node \in st.visited THEN st
    ELSE deps_each(g, DictGet(g.adj, node), 1, [st EXCEPT !.visited = @ \cup {node}])

\* get_transitive_dependencies: st is the closure state visited, result
deps_dfs(g, node, st) ==
    IF node \in st.visited THEN st
    ELSE deps_each(g, DictGet(g.rev, node), 1, [st EXCEPT !.visited = @ \cup {node}])
deps_each(g, ds, i, st) ==
    IF i > Len(ds) THEN st
    ELSE deps_each(g, ds, i + 1,
             deps_dfs(g, ds[i], [st EXCEPT !.result = @ \cup {ds[i]}]))

get_transitive_dependencies(g, node_name) ==
    deps_dfs(g, node_name, [visited |-> {}, result |-> {}]).result

MAX_DEPTH == 10000

RECURSIVE dependents_dfs(_, _, _, _), dependents_each(_, _, _, _, _)

\* variant: a dependent that was already visited is not added to the result
dependents_each_unvisited(g, ds, i, depth, st) ==
    IF i > Len(ds) \/ st.raised THEN st
    ELSE IF ds[i] \in st.visited THEN dependents_each(g, ds, i + 1, depth, st)
    ELSE dependents_each(g, ds, i + 1, depth,
             dependents_dfs(g, ds[i], depth + 1, [st EXCEPT !.result = @ \cup {ds[i]}]))

\* get_transitive_dependents, the traversal: st is visited, result, raised
dependents_dfs(g, node, depth, st) ==
    IF st.raised THEN st
    ELSE IF depth > MAX_DEPTH THEN [st EXCEPT !.raised = TRUE]
    ELSE IF node \in st.visited THEN st
    ELSE dependents_each(g, DictGet(g.adj, node), 1, depth,
             [st EXCEPT !.visited = @ \cup {node}])
dependents_each(g, ds, i, depth, st) ==
    IF i > Len(ds) \/ st.raised THEN st
    ELSE dependents_each(g, ds, i + 1, depth,
             dependents_dfs(g, ds[i], depth + 1, [st EXCEPT !.result = @ \cup {ds[i]}]))

dependents_traversal(g, node_name) ==
    dependents_dfs(g, node_name, 0, [visited |-> {}, result |-> {}, raised |-> FALSE])

\* variant: no existence check
get_transitive_dependents_unchecked(g, c, node_name) ==
    IF node_name \in DOMAIN c
    THEN [result |-> Returned(c[node_name]), cache |-> c]
    ELSE LET t == dependents_traversal(g, node_name)
         IN IF t.raised
            THEN [result |-> GraphError(""), cache |-> c]
            ELSE [result |-> Returned(t.result),
                  cache |-> [x \in DOMAIN c \cup {node_name} |->
                                IF x = node_name THEN t.result ELSE c[x]]]

\* the whole method: existence check, cache lookup, traversal, cache store;
\* c is _transitive_dependents_cache, the value is the outcome and the cache
get_transitive_dependents(g, c, node_name) ==
    IF node_name \notin Range(g.nodes)
    THEN [result |-> GraphError(node_name), cache |-> c]
    ELSE IF node_name \in DOMAIN c
    THEN [result |-> Returned(c[node_name]), cache |-> c]
    ELSE LET t == dependents_traversal(g, node_name)
         IN IF t.raised
            THEN [result |-> GraphError(""), cache |-> c]
            ELSE [result |-> Returned(t.result),
                  cache |-> [x \in DOMAIN c \cup {node_name} |->
                                IF x = node_name THEN t.result ELSE c[x]]]

\* --------------------------------------------------------------- find_path
\* the for loop over the neighbours of current; b is found, path, queue, visited
RECURSIVE path_neighbors(_, _, _, _, _)
path_neighbors(nbrs, i, path, to_node, b) ==
    IF i > Len(nbrs) THEN b
    ELSE IF nbrs[i] = to_node
         THEN [b EXCEPT !.found = TRUE, !.path = Append(path, nbrs[i])]
    ELSE IF nbrs[i] \notin b.visited
         THEN path_neighbors(nbrs, i + 1, path, to_node,
                  [b EXCEPT !.visited = @ \cup {nbrs[i]},
                            !.queue = Append(@, <<nbrs[i], Append(path, nbrs[i])>>)])
    ELSE path_neighbors(nbrs, i + 1, path, to_node, b)

RECURSIVE path_bfs(_, _, _)
path_bfs(g, to_node, b) ==
    IF b.queue = <<>> THEN ReturnedNone
    ELSE LET current == Head(b.queue)[1]
             path == Head(b.queue)[2]
             b1 == path_neighbors(DictGet(g.adj, current), 1, path, to_node,
                       [b EXCEPT !.queue = Tail(@)])
         IN IF b1.found THEN Returned(b1.path) ELSE path_bfs(g, to_node, b1)

\* variant: identical endpoints are searched for like any other pair
find_path_always_search(g, from_node, to_node) ==
    IF from_node \notin Range(g.nodes) \/ to_node \notin Range(g.nodes) THEN ReturnedNone
    ELSE path_bfs(g, to_node,
             [found |-> FALSE, path |-> <<>>,
              queue |-> <<<<from_node, <<from_node>>>>>>, visited |-> {from_node}])

find_path(g, from_node, to_node) ==
    IF from_node \notin Range(g.nodes) \/ to_node \notin Range(g.nodes) THEN ReturnedNone
    ELSE IF from_node = to_node THEN Returned(<<from_node>>)
    ELSE path_bfs(g, to_node,
             [found |-> FALSE, path |-> <<>>,
              queue |-> <<<<from_node, <<from_node>>>>>>, visited |-> {from_node}])

\* ----------------------------------------------------- get_execution_order
\* variant: one satisfied dependency is enough
next_layer_any(g, remaining, satisfied) ==
    {n \in remaining :
        \/ get_dependencies(g, n) = <<>>
        \/ Range(get_dependencies(g, n)) \cap satisfied # {}}

\* the next frontier: remaining nodes whose dependencies are all satisfied
next_layer(g, remaining, satisfied) ==
    {n \in remaining : Range(get_dependencies(g, n)) \subseteq satisfied}

\* the while loop; layers are kept as sets, listed when they are returned
RECURSIVE layer_loop(_, _, _, _)
layer_loop(g, current_layer, remaining, layers) ==
    IF current_layer = {} THEN [layers |-> layers, remaining |-> remaining]
    ELSE LET layers1 == Append(layers, current_layer)
             remaining1 == remaining \ current_layer
             satisfied == UNION Range(layers1)
         IN layer_loop(g, next_layer(g, remaining1, satisfied), remaining1, layers1)

\* the first start node that is not an entity, or "" when all are
RECURSIVE first_missing_start(_, _, _)
first_missing_start(g, start_nodes, i) ==
    IF i > Len(start_nodes) THEN ""
    ELSE IF start_nodes[i] \notin Range(g.nodes) THEN start_nodes[i]
    ELSE first_missing_start(g, start_nodes, i + 1)

\* the layering as a list of sets, or the error raised
execution_layers(g, start_nodes) ==
    IF \E i \in 1..Len(start_nodes) : start_nodes[i] \notin Range(g.nodes)
    THEN GraphError(first_missing_start(g, start_nodes, 1))
    ELSE LET w == layer_loop(g, Range(start_nodes), Range(g.nodes), <<>>)
         IN IF w.remaining # {}
            THEN IF Len(find_cycles(g)) > 0 THEN CycleError(find_cycles(g))
                 ELSE Returned(Append(w.layers, w.remaining))
            ELSE Returned(w.layers)

\* list(current_layer): every listing of each layer
RECURSIVE LayerListings(_)
LayerListings(sl) ==
    IF sl = <<>> THEN {<<>>}
    ELSE {<<h>> \o t : h \in Listings(Head(sl)), t \in LayerListings(Tail(sl))}

\* ---------------------------------------------------- get_dependency_layers
\* the nested calls of calculate_depth the interpreter allows before it
\* raises RecursionError (sys.getrecursionlimit() in the program)
RecursionLimit == 4

RecursionError == [kind |-> "RecursionError", value |-> <<>>, node_name |-> "", cycles |-> <<>>]

\* depth_map is a dict in insertion order: a list of (node_name, depth) items
InDepthMap(dm, node_name) == \E i \in 1..Len(dm) : dm[i].node_name = node_name

DepthOf(dm, node_name) ==
    LET i == CHOOSE j \in 1..Len(dm) : dm[j].node_name = node_name IN dm[i].depth

\* depth_map[node_name] = depth
SetDepth(dm, node_name, depth) ==
    IF InDepthMap(dm, node_name)
    THEN [i \in 1..Len(dm) |->
             IF dm[i].node_name = node_name
             THEN [node_name |-> node_name, depth |-> depth] ELSE dm[i]]
    ELSE Append(dm, [node_name |-> node_name, depth |-> depth])

Max2(a, b) == IF a >= b THEN a ELSE b

RECURSIVE calculate_depth(_, _, _, _), max_dep_depth(_, _, _, _, _, _)

\* calculate_depth(node_name) as the level-th nested call; the result is the
\* depth returned, the depth_map left behind and whether the call raised
calculate_depth(g, dm, node_name, level) ==
    IF level > RecursionLimit
    THEN [depth_map |-> dm, depth |-> 0, raised |-> TRUE]
    ELSE IF InDepthMap(dm, node_name)
    THEN [depth_map |-> dm, depth |-> DepthOf(dm, node_name), raised |-> FALSE]
    ELSE LET deps == get_dependencies(g, node_name)
         IN IF Len(deps) = 0
            THEN [depth_map |-> SetDepth(dm, node_name, 0), depth |-> 0, raised |-> FALSE]
            ELSE LET r == max_dep_depth(g, dm, deps, 1, 0, level + 1)
                 IN IF r.raised THEN r
                    ELSE [depth_map |-> SetDepth(r.depth_map, node_name, r.depth + 1),
                          depth |-> r.depth + 1, raised |-> FALSE]

\* max(calculate_depth(dep) for dep in deps), from position i with best so far
max_dep_depth(g, dm, deps, i, best, level) ==
    IF i > Len(deps) THEN [depth_map |-> dm, depth |-> best, raised |-> FALSE]
    ELSE LET r == calculate_depth(g, dm, deps[i], level)
         IN IF r.raised THEN r
            ELSE max_dep_depth(g, r.depth_map, deps, i + 1, Max2(best, r.depth), level)

\* for node_name in graph.nodes: calculate_depth(node_name)
RECURSIVE calculate_all(_, _, _)
calculate_all(g, dm, i) ==
    IF i > Len(g.nodes) THEN [depth_map |-> dm, depth |-> 0, raised |-> FALSE]
    ELSE LET r == calculate_depth(g, dm, g.nodes[i], 1)
         IN IF r.raised THEN r ELSE calculate_all(g, r.depth_map, i + 1)

\* max(depth_map.values()) if depth_map else 0
RECURSIVE max_depth(_, _)
max_depth(dm, i) == IF i > Len(dm) THEN 0 ELSE Max2(dm[i].depth, max_depth(dm, i + 1))

\* layers = [[] for _ in range(max_depth + 1)], filled in depth_map order
group_by_depth(dm) ==
    [d \in 1..(max_depth(dm, 1) + 1) |->
        LET at == SelectSeq(dm, LAMBDA item : item.depth = d - 1)
        IN [j \in 1..Len(at) |-> at[j].node_name]]

get_dependency_layers(g) ==
    LET r == calculate_all(g, <<>>, 1)
    IN IF r.raised THEN RecursionError ELSE Returned(group_by_depth(r.depth_map))

\* -------------------------------------------------------------------- Init
Keys(k) == SubSeq(NameList, 1, k)

EdgeLists(k) ==
    UNION {[1..n -> {Edge(u, v) : u, v \in Range(Keys(k)) \cup {NoSuchName}}] : n \in 0..MaxEdges}

\* the explicit start_nodes lists tried: each set of names, unknown name
\* included, listed in the order of the entity mapping
StartLists(g) ==
    {SelectSeq(g.nodes \o <<NoSuchName>>, LAMBDA n : n \in S) :
        S \in SUBSET (Range(g.nodes) \cup {NoSuchName})}

\* the variables of the components that a specification does not use
ValidatorIdle == violations = <<>>
CompareIdle == old_graph = NoGraph
MergeIdle == graphs = <<>>
ExtractIdle == edges_seen = {} /\ first_found = EmptyDict /\ steps = 0
LayersIdle == depth_map = <<>> /\ frames = <<>>
BatchIdle == files = <<>>
InstancesIdle == instances = <<>> /\ caches = <<>> /\ first_results = <<>>

Init ==
    /\ \E k \in 0..Len(NameList) :
          /\ nodes = Keys(k)
          /\ edges \in EdgeLists(k)
    /\ pc = "new"
    /\ graph = NoGraph
    /\ cache = EmptyDict
    /\ op = NoOp
    /\ result = NoResult
    /\ ValidatorIdle /\ CompareIdle /\ MergeIdle /\ ExtractIdle
    /\ LayersIdle /\ BatchIdle /\ InstancesIdle

\* ----------------------------------------------------------------- actions
\* DependencyGraph(nodes, edges)
Construct ==
    /\ pc = "new"
    /\ op' = [name |-> "__init__", args |-> <<>>]
    /\ IF HasBadEndpoint(nodes, edges)
       THEN /\ pc' = "failed"
            /\ result' = GraphError(FirstBadEndpoint(nodes, edges, 1))
            /\ UNCHANGED graph
       ELSE /\ pc' = "built"
            /\ graph' = NewGraph(nodes, edges)
            /\ result' = Returned(<<>>)
    /\ UNCHANGED <<nodes, edges, cache>>
    /\ UNCHANGED <<validatorVars, compareVars, mergeVars, extractVars>>
    /\ UNCHANGED <<layerVars, batchVars, instanceVars>>

\* graph.find_cycles()
FindCycles ==
    /\ pc = "built"
    /\ pc' = "done"
    /\ op' = [name |-> "find_cycles", args |-> <<>>]
    /\ result' = Returned(find_cycles(graph))
    /\ UNCHANGED <<nodes, edges, graph, cache>>
    /\ UNCHANGED <<validatorVars, compareVars, mergeVars, extractVars>>
    /\ UNCHANGED <<layerVars, batchVars, instanceVars>>

\* topological_sort(graph)
TopologicalSort ==
    /\ pc = "built"
    /\ pc' = "done"
    /\ op' = [name |-> "topological_sort", args |-> <<>>]
    /\ result' = topological_sort(graph)
    /\ UNCHANGED <<nodes, edges, graph, cache>>
    /\ UNCHANGED <<validatorVars, compareVars, mergeVars, extractVars>>
    /\ UNCHANGED <<layerVars, batchVars, instanceVars>>

\* graph.get_dependencies(name)
GetDependencies ==
    /\ pc = "built"
    /\ \E name \in Range(graph.nodes) \cup {NoSuchName} :
          /\ op' = [name |-> "get_dependencies", args |-> <<name>>]
          /\ result' = Returned(get_dependencies(graph, name))
    /\ pc' = "done"
    /\ UNCHANGED <<nodes, edges, graph, cache>>
    /\ UNCHANGED <<validatorVars, compareVars, mergeVars, extractVars>>
    /\ UNCHANGED <<layerVars, batchVars, instanceVars>>

\* graph.get_dependents(name)
GetDependents ==
    /\ pc = "built"
    /\ \E name \in Range(graph.nodes) \cup {NoSuchName} :
          /\ op' = [name |-> "get_dependents", args |-> <<name>>]
          /\ result' = Returned(get_dependents(graph, name))
    /\ pc' = "done"
    /\ UNCHANGED <<nodes, edges, graph, cache>>
    /\ UNCHANGED <<validatorVars, compareVars, mergeVars, extractVars>>
    /\ UNCHANGED <<layerVars, batchVars, instanceVars>>

\* graph.get_transitive_dependencies(node_name)
GetTransitiveDependencies ==
    /\ pc = "built"
    /\ \E name \in Range(graph.nodes) \cup {NoSuchName} :
          /\ op' = [name |-> "get_transitive_dependencies", args |-> <<name>>]
          /\ result' = Returned(get_transitive_dependencies(graph, name))
    /\ pc' = "done"
    /\ UNCHANGED <<nodes, edges, graph, cache>>
    /\ UNCHANGED <<validatorVars, compareVars, mergeVars, extractVars>>
    /\ UNCHANGED <<layerVars, batchVars, instanceVars>>

\* graph.get_transitive_dependents(node_name)
GetTransitiveDependents ==
    /\ pc = "built"
    /\ \E name \in Range(graph.nodes) \cup {NoSuchName} :
          /\ op' = [name |-> "get_transitive_dependents", args |-> <<name>>]
          /\ result' = get_transitive_dependents(graph, cache, name).result
          /\ cache' = get_transitive_dependents(graph, cache, name).cache
    /\ pc' = "done"
    /\ UNCHANGED <<nodes, edges, graph>>
    /\ UNCHANGED <<validatorVars, compareVars, mergeVars, extractVars>>
    /\ UNCHANGED <<layerVars, batchVars, instanceVars>>

\* graph.find_path(from_node, to_node)
FindPath ==
    /\ pc = "built"
    /\ \E a, b \in Range(graph.nodes) \cup {NoSuchName} :
          /\ op' = [name |-> "find_path", args |-> <<a, b>>]
          /\ result' = find_path(graph, a, b)
    /\ pc' = "done"
    /\ UNCHANGED <<nodes, edges, graph, cache>>
    /\ UNCHANGED <<validatorVars, compareVars, mergeVars, extractVars>>
    /\ UNCHANGED <<layerVars, batchVars, instanceVars>>

\* get_execution_order(graph): start_nodes is None
GetExecutionOrderDefault ==
    /\ pc = "built"
    /\ op' = [name |-> "get_execution_order", args |-> <<>>]
    /\ LET r == execution_layers(graph, find_roots(graph))
       IN IF r.kind = "ok"
          THEN \E ls \in LayerListings(r.value) : result' = Returned(ls)
          ELSE result' = r
    /\ pc' = "done"
    /\ UNCHANGED <<nodes, edges, graph, cache>>
    /\ UNCHANGED <<validatorVars, compareVars, mergeVars, extractVars>>
    /\ UNCHANGED <<layerVars, batchVars, instanceVars>>

\* get_execution_order(graph, start_nodes) with an explicit list
GetExecutionOrderFrom ==
    /\ pc = "built"
    /\ \E start_nodes \in StartLists(graph) :
          /\ op' = [name |-> "get_execution_order", args |-> <<start_nodes>>]
          /\ LET r == execution_layers(graph, start_nodes)
             IN IF r.kind = "ok"
                THEN \E ls \in LayerListings(r.value) : result' = Returned(ls)
                ELSE result' = r
    /\ pc' = "done"
    /\ UNCHANGED <<nodes, edges, graph, cache>>
    /\ UNCHANGED <<validatorVars, compareVars, mergeVars, extractVars>>
    /\ UNCHANGED <<layerVars, batchVars, instanceVars>>

\* graph.get_dependency_layers()
GetDependencyLayers ==
    /\ pc = "built"
    /\ op' = [name |-> "get_dependency_layers", args |-> <<>>]
    /\ result' = get_dependency_layers(graph)
    /\ pc' = "done"
    /\ UNCHANGED <<nodes, edges, graph, cache>>
    /\ UNCHANGED <<validatorVars, compareVars, mergeVars, extractVars>>
    /\ UNCHANGED <<layerVars, batchVars, instanceVars>>

Next ==
    \/ Construct
    \/ FindCycles
    \/ TopologicalSort
    \/ GetDependencies
    \/ GetDependents
    \/ GetTransitiveDependencies
    \/ GetTransitiveDependents
    \/ FindPath
    \/ GetExecutionOrderDefault
    \/ GetExecutionOrderFrom
    \/ GetDependencyLayers

Spec == Init /\ [][Next]_vars

\* ------------------------------------------------ graph-theoretic notions
\* defined from the edge list alone, independently of the traversals above
EdgePairs(g) == {<<g.edges[i].from_node, g.edges[i].to_node>> : i \in 1..Len(g.edges)}

Successors(E, S) == {p[2] : p \in {q \in E : q[1] \in S}}

RECURSIVE Closure(_, _)
Closure(E, S) ==
    LET S1 == S \cup Successors(E, S) IN IF S1 = S THEN S ELSE Closure(E, S1)

\* the names reachable from x by one or more edges
ReachablePlus(E, x) == Closure(E, Successors(E, {x}))

Reverse(E) == {<<p[2], p[1]>> : p \in E}

HasDirectedCycle(g) == \E x \in Range(g.nodes) : x \in ReachablePlus(EdgePairs(g), x)

IsEntity(g, n) == n \in Range(g.nodes)

\* s is a path of the graph: consecutive names are joined by an edge
IsWalk(g, s) == \A i \in 1..(Len(s) - 1) : <<s[i], s[i + 1]>> \in EdgePairs(g)

Called(name) == pc = "done" /\ op.name = name

\* ------------------------------------------------------------------ claims

\* C1: when has_cycles() is false, topological_sort returns every entity
\* name exactly once, and for every edge (u -> v) u comes before v.
C1_TopologicalSortOrders ==
    (Called("topological_sort") /\ ~has_cycles(graph)) =>
        /\ result.kind = "ok"
        /\ Len(result.value) = Len(graph.nodes)
        /\ Range(result.value) = Range(graph.nodes)
        /\ \A i \in 1..Len(graph.edges) :
              Index(result.value, graph.edges[i].from_node)
                  < Index(result.value, graph.edges[i].to_node)

\* a sorted graph of three entities with a duplicate edge and an entity
\* that no edge touches
C1_Witness ==
    /\ Called("topological_sort") /\ result.kind = "ok"
    /\ Len(graph.nodes) = 3
    /\ \E i, j \in 1..Len(graph.edges) : i # j /\ graph.edges[i] = graph.edges[j]
    /\ \E n \in Range(graph.nodes) :
          \A i \in 1..Len(graph.edges) :
              graph.edges[i].from_node # n /\ graph.edges[i].to_node # n

\* C2: construction fails with a GraphError naming an endpoint that is not
\* a key whenever some edge has such an endpoint, and succeeds otherwise.
C2_ConstructionChecksEndpoints ==
    (pc # "new") =>
        IF \E i \in 1..Len(edges) :
              edges[i].from_node \notin Range(nodes) \/ edges[i].to_node \notin Range(nodes)
        THEN /\ pc = "failed"
             /\ result.kind = "GraphError"
             /\ result.node_name \notin Range(nodes)
             /\ \E i \in 1..Len(edges) :
                   result.node_name \in {edges[i].from_node, edges[i].to_node}
        ELSE /\ pc \in {"built", "done"}
             /\ graph.nodes = nodes /\ graph.edges = edges

\* a rejected edge list whose only unknown endpoint is a to_node
C2_WitnessRejected ==
    /\ pc = "failed"
    /\ Len(edges) = MaxEdges
    /\ \A i \in 1..Len(edges) : edges[i].from_node \in Range(nodes)

\* C3: on a graph with a directed cycle topological_sort raises a
\* CycleError carrying the non-empty list find_cycles() detects, and
\* returns no ordering.
C3_TopologicalSortRejectsCycles ==
    (Called("topological_sort") /\ HasDirectedCycle(graph)) =>
        /\ result.kind = "CycleError"
        /\ Len(result.cycles) > 0
        /\ result.cycles = find_cycles(graph)

C3_Witness ==
    /\ Called("topological_sort") /\ HasDirectedCycle(graph)
    /\ result.kind = "CycleError"
    /\ Len(result.cycles) > 1

\* C4: find_cycles() is non-empty exactly when the forward adjacency has a
\* directed cycle, and every reported cycle is a closed path of the graph.
C4_FindCyclesSoundAndComplete ==
    Called("find_cycles") =>
        /\ (Len(result.value) > 0) <=> HasDirectedCycle(graph)
        /\ has_cycles(graph) <=> HasDirectedCycle(graph)
        /\ \A i \in 1..Len(result.value) :
              LET c == result.value[i]
              IN /\ Len(c) >= 2
                 /\ c[1] = c[Len(c)]
                 /\ IsWalk(graph, c)

\* a self-loop and a longer cycle are both reported
C4_Witness ==
    /\ Called("find_cycles")
    /\ \E i, j \in 1..Len(result.value) :
          Len(result.value[i]) = 2 /\ Len(result.value[j]) > 2

\* C5: if y is in get_transitive_dependents(x) then x is in
\* get_transitive_dependencies(y).
C5_ClosureConsistency ==
    (Called("get_transitive_dependents") /\ result.kind = "ok") =>
        \A y \in result.value :
            op.args[1] \in get_transitive_dependencies(graph, y)

\* an indirect dependent: y is reached from x through another entity
C5_Witness ==
    /\ Called("get_transitive_dependents") /\ result.kind = "ok"
    /\ \E y \in result.value :
          /\ y # op.args[1]
          /\ <<op.args[1], y>> \notin EdgePairs(graph)

\* C6 as claimed: both queries return the full reachability set of x, and
\* that set never contains x, on cyclic graphs too.
C6_AsClaimed ==
    /\ (Called("get_transitive_dependents") /\ result.kind = "ok") =>
          /\ result.value = ReachablePlus(EdgePairs(graph), op.args[1])
          /\ op.args[1] \notin result.value
    /\ (Called("get_transitive_dependencies") /\ IsEntity(graph, op.args[1])) =>
          /\ result.value = ReachablePlus(Reverse(EdgePairs(graph)), op.args[1])
          /\ op.args[1] \notin result.value

\* C6 amended: both queries return the set of entities reachable from x by
\* one or more edges (forward, respectively reverse); that set contains x
\* exactly when x lies on a directed cycle, so never in an acyclic graph.
C6_ReachabilitySets ==
    /\ (Called("get_transitive_dependents") /\ result.kind = "ok") =>
          /\ result.value = ReachablePlus(EdgePairs(graph), op.args[1])
          /\ (op.args[1] \in result.value)
                <=> (op.args[1] \in ReachablePlus(EdgePairs(graph), op.args[1]))
          /\ ~HasDirectedCycle(graph) => op.args[1] \notin result.value
    /\ (Called("get_transitive_dependencies") /\ IsEntity(graph, op.args[1])) =>
          /\ result.value = ReachablePlus(Reverse(EdgePairs(graph)), op.args[1])
          /\ (op.args[1] \in result.value)
                <=> (op.args[1] \in ReachablePlus(EdgePairs(graph), op.args[1]))
          /\ ~HasDirectedCycle(graph) => op.args[1] \notin result.value

\* the dependents of an entity on a cycle of two entities: itself included
C6_Witness ==
    /\ Called("get_transitive_dependents") /\ result.kind = "ok"
    /\ op.args[1] \in result.value
    /\ <<op.args[1], op.args[1]>> \notin EdgePairs(graph)

\* C7: for a name that is not an entity, get_dependencies and
\* get_dependents return an empty list, and get_transitive_dependents
\* raises a GraphError carrying the name.
C7_UnknownNames ==
    /\ (Called("get_dependencies") /\ ~IsEntity(graph, op.args[1])) =>
          result = Returned(<<>>)
    /\ (Called("get_dependents") /\ ~IsEntity(graph, op.args[1])) =>
          result = Returned(<<>>)
    /\ (Called("get_transitive_dependents") /\ ~IsEntity(graph, op.args[1])) =>
          /\ result = GraphError(op.args[1])
          /\ cache = EmptyDict

C7_Witness ==
    /\ Called("get_transitive_dependents") /\ ~IsEntity(graph, op.args[1])
    /\ result.kind = "GraphError"
    /\ Len(graph.edges) > 0

\* the least number of edges of a path from the frontier to b, -1 if none
RECURSIVE Distance(_, _, _, _, _)
Distance(E, frontier, seen, b, d) ==
    IF b \in frontier THEN d
    ELSE LET nxt == Successors(E, frontier) \ seen
         IN IF nxt = {} THEN -1 ELSE Distance(E, nxt, seen \cup nxt, b, d + 1)

\* C8: find_path(a, b) is [a] when a = b is an entity; otherwise a path of
\* forward edges from a to b with the least number of edges; and None
\* exactly when b is not reachable from a or a or b is not an entity.
C8_FindPathShortest ==
    Called("find_path") =>
        LET a == op.args[1]
            b == op.args[2]
            E == EdgePairs(graph)
        IN IF ~IsEntity(graph, a) \/ ~IsEntity(graph, b) THEN result.kind = "None"
           ELSE IF a = b THEN result = Returned(<<a>>)
           ELSE IF b \notin ReachablePlus(E, a) THEN result.kind = "None"
           ELSE /\ result.kind = "ok"
                /\ result.value[1] = a
                /\ result.value[Len(result.value)] = b
                /\ IsWalk(graph, result.value)
                /\ Len(result.value) - 1 = Distance(E, {a}, {a}, b, 0)

\* a direct edge is preferred to a path of two edges that comes first
C8_Witness ==
    /\ Called("find_path") /\ result.kind = "ok"
    /\ Len(result.value) = 2
    /\ \E m \in Range(graph.nodes) \ Range(result.value) :
          /\ <<result.value[1], m>> \in EdgePairs(graph)
          /\ <<m, result.value[2]>> \in EdgePairs(graph)
          /\ get_dependents(graph, result.value[1])[1] = m

\* the positions of the layers that list n
LayersOf(ls, n) == {i \in 1..Len(ls) : n \in Range(ls[i])}

\* every entity is listed once, in one layer
IsPartition(g, ls) ==
    /\ \A n \in Range(g.nodes) : Cardinality(LayersOf(ls, n)) = 1
    /\ \A i \in 1..Len(ls) :
          /\ Range(ls[i]) \subseteq Range(g.nodes)
          /\ \A j, k \in 1..Len(ls[i]) : ls[i][j] = ls[i][k] => j = k

\* every dependency of every entity is listed in a strictly earlier layer
DependenciesFirst(g, ls) ==
    \A i \in 1..Len(g.edges) :
        \A lv \in LayersOf(ls, g.edges[i].to_node) :
            \E lu \in LayersOf(ls, g.edges[i].from_node) : lu < lv

\* C9: on an acyclic graph get_execution_order() lists every entity in
\* exactly one layer, the first layer holds exactly the roots, and for
\* every edge (u -> v) the layer of u comes before the layer of v.
C9_ExecutionOrderDefault ==
    (Called("get_execution_order") /\ op.args = <<>> /\ ~HasDirectedCycle(graph)) =>
        /\ result.kind = "ok"
        /\ IsPartition(graph, result.value)
        /\ \A i \in 1..Len(result.value) : result.value[i] # <<>>
        /\ graph.nodes # <<>> =>
              Range(result.value[1]) = Range(find_roots(graph))
        /\ graph.nodes = <<>> => result.value = <<>>
        /\ DependenciesFirst(graph, result.value)

\* the chain A -> B -> C yields [[A], [B], [C]]
C9_Witness ==
    /\ Called("get_execution_order") /\ op.args = <<>>
    /\ graph.edges = <<Edge("A", "B"), Edge("B", "C")>>
    /\ result = Returned(<< <<"A">>, <<"B">>, <<"C">> >>)

\* C10 as claimed: on an acyclic graph, for every explicit start_nodes list
\* of existing entities, every entity's direct dependencies all lie in
\* strictly earlier layers.
C10_AsClaimed ==
    (/\ Called("get_execution_order") /\ Len(op.args) = 1
     /\ Range(op.args[1]) \subseteq Range(graph.nodes)
     /\ ~HasDirectedCycle(graph)) =>
        /\ result.kind = "ok"
        /\ DependenciesFirst(graph, result.value)

\* C11 as claimed: on a graph with a directed cycle get_execution_order
\* raises a CycleError carrying the cycle list, whatever the start nodes
\* (the roots, or an explicit list of existing entities).
C11_AsClaimed ==
    (/\ Called("get_execution_order")
     /\ HasDirectedCycle(graph)
     /\ op.args # <<>> => Range(op.args[1]) \subseteq Range(graph.nodes)) =>
        /\ result.kind = "CycleError"
        /\ result.cycles = find_cycles(graph)

\* ============================================================ comparison.py
\* the largest edge list of a compared graph
MaxCompareEdges == 2

\* Python's None
None == "None"

\* types.DependencyType, by value
DependencyTypes == {"explicit", "implicit"}

\* types.Node, without its metadata
Node(name, kind, source, authority, file_path, line_number) ==
    [name |-> name, kind |-> kind, source |-> source, authority |-> authority,
     file_path |-> file_path, line_number |-> line_number]

\* types.Edge with its dependency type
TypedEdge(u, v, t) == [from_node |-> u, to_node |-> v, dep_type |-> t]

\* a constructed DependencyGraph together with the Node of each key
NodeGraph(ns, node, es) ==
    [nodes |-> ns, edges |-> es,
     adj |-> BuildAdj(es, 1, EmptyDict), rev |-> BuildRev(es, 1, EmptyDict),
     node |-> node]

edge_to_key(edge) == <<edge.from_node, edge.to_node, edge.dep_type>>

edges_to_set(es) == {edge_to_key(es[i]) : i \in 1..Len(es)}

\* variant: the line number is not compared
compared_properties_without_line_number == <<"kind", "source", "authority", "file_path">>

\* the properties compare_graphs tests, in the order it tests them
compared_properties == <<"kind", "source", "authority", "file_path", "line_number">>

\* the changes dict of one common entity, without its "name" entry
node_changes(old_node, new_node) ==
    [f \in {x \in Range(compared_properties) : old_node[x] # new_node[x]} |->
        [old |-> old_node[f], new |-> new_node[f]]]

\* the loop over common_names, iterated in the order common;
\* d is changed_nodes, authority_changes
RECURSIVE compare_nodes(_, _, _, _, _)
compare_nodes(old_graph_, new_graph, common, i, d) ==
    IF i > Len(common) THEN d
    ELSE LET name == common[i]
             old_node == old_graph_.node[name]
             new_node == new_graph.node[name]
             changes == node_changes(old_node, new_node)
             d1 == IF "authority" \in DOMAIN changes
                   THEN [d EXCEPT !.authority_changes =
                            Append(@, [node |-> name,
                                       old_authority |-> old_node.authority,
                                       new_authority |-> new_node.authority])]
                   ELSE d
             d2 == IF DOMAIN changes # {}
                   THEN [d1 EXCEPT !.changed_nodes =
                            Append(@, [name |-> name, changes |-> changes])]
                   ELSE d1
         IN compare_nodes(old_graph_, new_graph, common, i + 1, d2)

added_edges(old_graph_, new_graph) ==
    SelectSeq(new_graph.edges,
              LAMBDA e : edge_to_key(e) \in
                         edges_to_set(new_graph.edges) \ edges_to_set(old_graph_.edges))

\* variant: every old edge that is not an added one counts as removed
removed_edges_not_added(old_graph_, new_graph) ==
    SelectSeq(old_graph_.edges,
              LAMBDA e : edge_to_key(e) \notin
                         edges_to_set(new_graph.edges) \ edges_to_set(old_graph_.edges))
removed_edges(old_graph_, new_graph) ==
    SelectSeq(old_graph_.edges,
              LAMBDA e : edge_to_key(e) \in
                         edges_to_set(old_graph_.edges) \ edges_to_set(new_graph.edges))

RECURSIVE affected_each(_, _, _, _, _)

\* variant: the entity itself is never added
affected_each_dependents_only(new_graph, names, i, add_self, a) ==
    IF i > Len(names) \/ a.raised THEN a
    ELSE IF names[i] \notin Range(new_graph.nodes)
    THEN affected_each(new_graph, names, i + 1, add_self, a)
    ELSE LET r == get_transitive_dependents(new_graph, a.cache, names[i])
         IN IF r.result.kind # "ok" THEN [a EXCEPT !.raised = TRUE]
            ELSE affected_each(new_graph, names, i + 1, add_self,
                     [affected |-> a.affected \cup r.result.value,
                      cache |-> r.cache, raised |-> FALSE])
\* one loop of the impact analysis over names; add_self tells the loops that
\* add the entity itself from the loop over the removed names, which adds
\* its dependents only; a is affected, the new graph's cache, raised
affected_each(new_graph, names, i, add_self, a) ==
    IF i > Len(names) \/ a.raised THEN a
    ELSE IF names[i] \notin Range(new_graph.nodes)
    THEN affected_each(new_graph, names, i + 1, add_self, a)
    ELSE LET r == get_transitive_dependents(new_graph, a.cache, names[i])
         IN IF r.result.kind # "ok" THEN [a EXCEPT !.raised = TRUE]
            ELSE affected_each(new_graph, names, i + 1, add_self,
                     [affected |-> a.affected
                                   \cup (IF add_self THEN {names[i]} ELSE {})
                                   \cup r.result.value,
                      cache |-> r.cache, raised |-> FALSE])

\* compare_graphs; added, removed and common are the orders in which the
\* three name sets are iterated, c is the new graph's cache; the value is
\* the outcome (the GraphDiff, or the error of a traversal) and the cache
compare_graphs(old_graph_, new_graph, c, added, removed, common) ==
    LET d == compare_nodes(old_graph_, new_graph, common, 1,
                           [changed_nodes |-> <<>>, authority_changes |-> <<>>])
        removed_es == removed_edges(old_graph_, new_graph)
        a1 == affected_each(new_graph, removed, 1, FALSE,
                            [affected |-> {}, cache |-> c, raised |-> FALSE])
        a2 == affected_each(new_graph,
                            [i \in 1..Len(removed_es) |-> removed_es[i].to_node],
                            1, TRUE, a1)
        a3 == affected_each(new_graph,
                            [i \in 1..Len(d.changed_nodes) |-> d.changed_nodes[i].name],
                            1, TRUE, a2)
    IN [result |->
            IF a3.raised THEN GraphError("")
            ELSE Returned(
                   [added_nodes |-> [i \in 1..Len(added) |-> new_graph.node[added[i]]],
                    removed_nodes |-> [i \in 1..Len(removed) |-> old_graph_.node[removed[i]]],
                    changed_nodes |-> d.changed_nodes,
                    added_edges |-> added_edges(old_graph_, new_graph),
                    removed_edges |-> removed_es,
                    authority_changes |-> d.authority_changes,
                    affected_nodes |-> a3.affected]),
        cache |-> a3.cache]

\* ---------------------------------------------------------- SpecCompare
\* the authorities an entity of a compared graph may cite
Authorities == {None, "CPLR 3211"}

\* the entity mappings of the compared graphs: every entity cites the same
\* authority, or none does
CompareNodes(ns) ==
    {[n \in Range(ns) |-> Node(n, "variable", "user_input", a, None, None)] :
        a \in Authorities}

CompareEdgeLists(k) ==
    UNION {[1..n -> {TypedEdge(u, v, t) : u, v \in Range(Keys(k)), t \in DependencyTypes}] :
              n \in 0..MaxCompareEdges}

\* the sub-lists of a list
SubLists(s) ==
    {SelectSeq([i \in 1..Len(s) |-> <<i, s[i]>>], LAMBDA p : p[1] \in keep) :
        keep \in SUBSET (1..Len(s))}

\* the later versions of a graph that are compared with it: the same
\* entities, any part of the edge list (all of it included)
Revisions(g) ==
    {NodeGraph(g.nodes, g.node, [i \in 1..Len(sub) |-> sub[i][2]]) : sub \in SubLists(g.edges)}

\* the old graph has been constructed
InitCompare ==
    /\ \E k \in 0..Len(NameList) :
          \E es \in CompareEdgeLists(k), node \in CompareNodes(Keys(k)) :
             old_graph = NodeGraph(Keys(k), node, es)
    /\ nodes = <<>> /\ edges = <<>>
    /\ pc = "built"
    /\ graph = NoGraph
    /\ cache = EmptyDict
    /\ op = NoOp
    /\ result = NoResult
    /\ ValidatorIdle /\ MergeIdle /\ ExtractIdle
    /\ LayersIdle /\ BatchIdle /\ InstancesIdle

CompareGraphs ==
    /\ pc = "built"
    /\ \E new_graph \in Revisions(old_graph) :
          \E added \in Listings(Range(new_graph.nodes) \ Range(old_graph.nodes)),
             removed \in Listings(Range(old_graph.nodes) \ Range(new_graph.nodes)),
             common \in Listings(Range(old_graph.nodes) \cap Range(new_graph.nodes)) :
             LET r == compare_graphs(old_graph, new_graph, EmptyDict, added, removed, common)
             IN /\ graph' = new_graph
                /\ result' = r.result
                /\ cache' = r.cache
    /\ op' = [name |-> "compare_graphs", args |-> <<>>]
    /\ pc' = "done"
    /\ UNCHANGED <<nodes, edges, old_graph>>
    /\ UNCHANGED <<validatorVars, mergeVars, extractVars>>
    /\ UNCHANGED <<layerVars, batchVars, instanceVars>>

NextCompare == CompareGraphs

SpecCompare == InitCompare /\ [][NextCompare]_vars

\* ------------------------------------------------------------ SpecRevise
\* compare_graphs for a graph and a revision of it that changes entities
MaxReviseEdges == 1

\* an entity as first written down
FirstNode(n) == Node(n, "variable", "user_input", None, "interview.yml", 1)

\* the same entity with the properties of changed set to other values
RevisedNode(node, changed) ==
    Node(node.name,
         IF "kind" \in changed THEN "question" ELSE node.kind,
         IF "source" \in changed THEN "derived" ELSE node.source,
         IF "authority" \in changed
         THEN (IF node.authority = None THEN "CPLR 3211" ELSE None)
         ELSE node.authority,
         IF "file_path" \in changed THEN "revised.yml" ELSE node.file_path,
         IF "line_number" \in changed THEN node.line_number + 1 ELSE node.line_number)

\* the sets of properties a revision changes in the entities it touches
PropertyChanges ==
    {{"kind"}, {"authority"}, {"source", "file_path", "line_number"},
     {"line_number"}, Range(compared_properties)}

ReviseEdgeLists(k) ==
    UNION {[1..n -> {TypedEdge(u, v, "explicit") : u, v \in Range(Keys(k))}] :
              n \in 0..MaxReviseEdges}

\* the entity names of a revision: the same, the last one removed, or the
\* next one added
RevisedNames(g) ==
    {Keys(k) : k \in {Len(g.nodes) - 1, Len(g.nodes), Len(g.nodes) + 1}
                       \cap (0..Len(NameList))}

\* the edge lists of a revision over the names ns: part of the old list, or
\* the old list with one more edge, without the edges of a removed entity
RevisedEdges(g, ns) ==
    {SelectSeq(es, LAMBDA e : e.from_node \in Range(ns) /\ e.to_node \in Range(ns)) :
        es \in {[i \in 1..Len(sub) |-> sub[i][2]] : sub \in SubLists(g.edges)}
               \cup {Append(g.edges, TypedEdge(u, v, "explicit")) : u, v \in Range(ns)}}

\* the revisions of a graph: the entities of touched get the properties of
\* changed set to new values, an added entity is new
NodeRevisions(g) ==
    {NodeGraph(ns,
               [n \in Range(ns) |->
                   IF n \notin Range(g.nodes) THEN FirstNode(n)
                   ELSE IF n \in touched THEN RevisedNode(g.node[n], changed)
                   ELSE g.node[n]],
               es) :
        <<ns, es>> \in UNION {{<<names, list>> : list \in RevisedEdges(g, names)} :
                                 names \in RevisedNames(g)},
        touched \in SUBSET Range(g.nodes),
        changed \in PropertyChanges}

InitRevise ==
    /\ \E k \in 0..Len(NameList) :
          \E es \in ReviseEdgeLists(k) :
             old_graph = NodeGraph(Keys(k), [n \in Range(Keys(k)) |-> FirstNode(n)], es)
    /\ nodes = <<>> /\ edges = <<>>
    /\ pc = "built"
    /\ graph = NoGraph
    /\ cache = EmptyDict
    /\ op = NoOp
    /\ result = NoResult
    /\ ValidatorIdle /\ MergeIdle /\ ExtractIdle
    /\ LayersIdle /\ BatchIdle /\ InstancesIdle

\* compare_graphs(old_graph, new_graph) for a revision new_graph
CompareRevised ==
    /\ pc = "built"
    /\ \E new_graph \in NodeRevisions(old_graph) :
          \E added \in Listings(Range(new_graph.nodes) \ Range(old_graph.nodes)),
             removed \in Listings(Range(old_graph.nodes) \ Range(new_graph.nodes)),
             common \in Listings(Range(old_graph.nodes) \cap Range(new_graph.nodes)) :
             LET r == compare_graphs(old_graph, new_graph, EmptyDict, added, removed, common)
             IN /\ graph' = new_graph
                /\ result' = r.result
                /\ cache' = r.cache
    /\ op' = [name |-> "compare_graphs", args |-> <<>>]
    /\ pc' = "done"
    /\ UNCHANGED <<nodes, edges, old_graph>>
    /\ UNCHANGED <<validatorVars, mergeVars, extractVars>>
    /\ UNCHANGED <<layerVars, batchVars, instanceVars>>

NextRevise == CompareRevised

SpecRevise == InitRevise /\ [][NextRevise]_vars

\* an entity of both graphs differs in one of the five properties
NodeDiffers(old, new, n) ==
    \/ old.node[n].kind # new.node[n].kind
    \/ old.node[n].source # new.node[n].source
    \/ old.node[n].authority # new.node[n].authority
    \/ old.node[n].file_path # new.node[n].file_path
    \/ old.node[n].line_number # new.node[n].line_number

\* C26: each entity of both graphs whose kind, source, authority, file_path
\* or line_number differs has exactly one changed_nodes entry (an entity
\* that does not differ has none), has an authority_changes entry exactly
\* when its authority differs, and is in affected_nodes together with all
\* of its transitive dependents in the new graph.
C26_ChangedEntities ==
    Called("compare_graphs") =>
        /\ result.kind = "ok"
        /\ \A n \in Range(old_graph.nodes) \cap Range(graph.nodes) :
              LET entries == {i \in 1..Len(result.value.changed_nodes) :
                                 result.value.changed_nodes[i].name = n}
                  authority == {i \in 1..Len(result.value.authority_changes) :
                                   result.value.authority_changes[i].node = n}
              IN /\ Cardinality(entries) =
                       IF NodeDiffers(old_graph, graph, n) THEN 1 ELSE 0
                 /\ Cardinality(authority) =
                       IF old_graph.node[n].authority # graph.node[n].authority
                       THEN 1 ELSE 0
                 /\ NodeDiffers(old_graph, graph, n) =>
                       /\ n \in result.value.affected_nodes
                       /\ ReachablePlus(EdgePairs(graph), n)
                             \subseteq result.value.affected_nodes

\* only the line number of A differs; B and C depend on A in the new graph
\* through an added edge, and C is no entity of the old graph
C26_Witness ==
    /\ Called("compare_graphs")
    /\ old_graph.nodes = <<"A", "B">>
    /\ graph.nodes = <<"A", "B", "C">>
    /\ EdgePairs(graph) = {<<"A", "B">>, <<"B", "C">>}
    /\ graph.node["A"].line_number # old_graph.node["A"].line_number
    /\ graph.node["A"].authority = old_graph.node["A"].authority
    /\ graph.node["B"] = old_graph.node["B"]
    /\ Len(result.value.changed_nodes) = 1
    /\ result.value.authority_changes = <<>>
    /\ result.value.affected_nodes = {"A", "B", "C"}

\* C12: comparing a graph with itself (cyclic graphs and graphs with
\* duplicate edges included) gives empty added_nodes, removed_nodes,
\* changed_nodes, added_edges, removed_edges and authority_changes and an
\* empty affected_nodes set.
C12_SelfComparisonEmpty ==
    (Called("compare_graphs") /\ graph = old_graph) =>
        /\ result.kind = "ok"
        /\ result.value.added_nodes = <<>>
        /\ result.value.removed_nodes = <<>>
        /\ result.value.changed_nodes = <<>>
        /\ result.value.added_edges = <<>>
        /\ result.value.removed_edges = <<>>
        /\ result.value.authority_changes = <<>>
        /\ result.value.affected_nodes = {}

\* a graph with a cycle and a duplicate edge has been compared with itself
C12_Witness ==
    /\ Called("compare_graphs") /\ graph = old_graph
    /\ HasDirectedCycle(graph)
    /\ \E i, j \in 1..Len(graph.edges) : i # j /\ graph.edges[i] = graph.edges[j]
    /\ \E n \in Range(graph.nodes) : graph.node[n].authority # None

\* the edges of the old graph that the new graph no longer has
RemovedFrom(old, new) == Range(old.edges) \ Range(new.edges)

\* C13: when the new graph has the old graph's entities unchanged and
\* differs only by removed edges, affected_nodes is exactly the union, over
\* the removed edges (u -> v), of v and the transitive dependents of v in
\* the new graph; for old A->B->C with A->B removed it holds B and C, not A.
C13_AffectedByRemovedEdges ==
    (/\ Called("compare_graphs")
     /\ graph.nodes = old_graph.nodes /\ graph.node = old_graph.node
     /\ Range(graph.edges) \subseteq Range(old_graph.edges)) =>
        /\ result.kind = "ok"
        /\ result.value.affected_nodes =
              UNION {{e.to_node} \cup ReachablePlus(EdgePairs(graph), e.to_node) :
                        e \in RemovedFrom(old_graph, graph)}
        /\ (/\ old_graph.nodes = <<"A", "B", "C">>
            /\ EdgePairs(old_graph) = {<<"A", "B">>, <<"B", "C">>}
            /\ EdgePairs(graph) = {<<"B", "C">>}) =>
               result.value.affected_nodes = {"B", "C"}

\* old A->B->C, new B->C: the edge A->B has been removed
C13_Witness ==
    /\ Called("compare_graphs")
    /\ old_graph.nodes = <<"A", "B", "C">>
    /\ EdgePairs(old_graph) = {<<"A", "B">>, <<"B", "C">>}
    /\ EdgePairs(graph) = {<<"B", "C">>}
    /\ result.kind = "ok"
    /\ "C" \in result.value.affected_nodes

\* ============================================================ validation.py
\* the largest edge list of a validated graph
MaxValidateEdges == 2

PolicyViolation(rule_name, severity, message, node_name, edge_info, metadata) ==
    [rule_name |-> rule_name, severity |-> severity, message |-> message,
     node_name |-> node_name, edge_info |-> edge_info, metadata |-> metadata]

\* DependencyGraph.find_orphans
\* variant: only the dependencies are looked at
find_orphans_no_dependencies(g) ==
    SelectSeq(g.nodes, LAMBDA n : Len(DictGet(g.rev, n)) = 0)
find_orphans(g) ==
    SelectSeq(g.nodes, LAMBDA n : Len(DictGet(g.rev, n)) = 0 /\ Len(DictGet(g.adj, n)) = 0)

\* each check_ method appends to self.violations: the value is the new list
\* variant: only the first cycle is reported
check_no_cycles_first_only(g, vs) ==
    LET cycles == find_cycles(g)
    IN vs \o [i \in 1..(IF Len(cycles) > 0 THEN 1 ELSE 0) |->
                PolicyViolation("no_cycles", "error",
                    <<"Circular dependency detected", cycles[i]>>,
                    IF Len(cycles[i]) > 0 THEN cycles[i][1] ELSE None,
                    None, [cycle |-> cycles[i]])]
check_no_cycles(g, vs) ==
    LET cycles == find_cycles(g)
    IN vs \o [i \in 1..Len(cycles) |->
                PolicyViolation("no_cycles", "error",
                    <<"Circular dependency detected", cycles[i]>>,
                    IF Len(cycles[i]) > 0 THEN cycles[i][1] ELSE None,
                    None, [cycle |-> cycles[i]])]

check_no_orphans(g, vs) ==
    LET orphans == find_orphans(g)
    IN vs \o [i \in 1..Len(orphans) |->
                PolicyViolation("no_orphans", "warning",
                    <<"Orphan node has no dependencies or dependents", orphans[i]>>,
                    orphans[i], None,
                    [file_path |-> g.node[orphans[i]].file_path,
                     line_number |-> g.node[orphans[i]].line_number])]

RECURSIVE check_missing_dependencies(_, _, _)
check_missing_dependencies(g, i, vs) ==
    IF i > Len(g.edges) THEN vs
    ELSE LET edge == g.edges[i]
             info == [from |-> edge.from_node, to |-> edge.to_node, type |-> edge.dep_type]
             meta == [file_path |-> None, line_number |-> None]
             v1 == IF edge.from_node \notin Range(g.nodes)
                   THEN Append(vs, PolicyViolation("no_missing_dependencies", "error",
                                       <<"Edge references missing node", edge.from_node>>,
                                       edge.to_node, info, meta))
                   ELSE vs
             v2 == IF edge.to_node \notin Range(g.nodes)
                   THEN Append(v1, PolicyViolation("no_missing_dependencies", "error",
                                       <<"Edge references missing node", edge.to_node>>,
                                       edge.from_node, info, meta))
                   ELSE v1
         IN check_missing_dependencies(g, i + 1, v2)

\* variant: the roots are not filtered out
unused_nodes_roots_kept(g) ==
    LET used_nodes == {g.edges[i].from_node : i \in 1..Len(g.edges)}
                      \cup {g.edges[i].to_node : i \in 1..Len(g.edges)}
    IN Range(g.nodes) \ used_nodes

\* check_all_nodes_used, the set unused after the roots are filtered out
unused_nodes(g) ==
    LET used_nodes == {g.edges[i].from_node : i \in 1..Len(g.edges)}
                      \cup {g.edges[i].to_node : i \in 1..Len(g.edges)}
    IN (Range(g.nodes) \ used_nodes) \ Range(find_roots(g))

\* listed is the set unused in the order in which it is iterated
check_all_nodes_used(g, listed, vs) ==
    vs \o [i \in 1..Len(listed) |->
                PolicyViolation("all_nodes_used", "warning",
                    <<"Node is defined but never referenced", listed[i]>>,
                    listed[i], None,
                    [file_path |-> g.node[listed[i]].file_path,
                     line_number |-> g.node[listed[i]].line_number,
                     kind |-> g.node[listed[i]].kind])]

RECURSIVE check_no_undefined_references(_, _, _)
check_no_undefined_references(g, i, vs) ==
    IF i > Len(g.edges) THEN vs
    ELSE LET edge == g.edges[i]
         IN check_no_undefined_references(g, i + 1,
                IF edge.dep_type = "implicit" /\ edge.from_node \notin Range(g.nodes)
                THEN Append(vs, PolicyViolation("no_undefined_references", "error",
                                    <<"Implicit reference to undefined variable",
                                      edge.from_node, edge.to_node>>,
                                    edge.to_node,
                                    [from |-> edge.from_node, to |-> edge.to_node,
                                     type |-> "implicit"],
                                    [file_path |-> None, line_number |-> None]))
                ELSE vs)

\* the keys of all_policies, in insertion order
all_policies ==
    <<"no_cycles", "no_orphans", "no_missing_dependencies", "all_nodes_used",
      "no_undefined_references">>

\* all_policies[policy_name]()
run_policy(g, policy_name, order, vs) ==
    CASE policy_name = "no_cycles" -> check_no_cycles(g, vs)
      [] policy_name = "no_orphans" -> check_no_orphans(g, vs)
      [] policy_name = "no_missing_dependencies" -> check_missing_dependencies(g, 1, vs)
      [] policy_name = "all_nodes_used" -> check_all_nodes_used(g, order, vs)
      [] policy_name = "no_undefined_references" -> check_no_undefined_references(g, 1, vs)

\* the loop over policies_to_run
RECURSIVE run_policies(_, _, _, _, _)
run_policies(g, policies_to_run, i, order, vs) ==
    IF i > Len(policies_to_run) THEN vs
    ELSE run_policies(g, policies_to_run, i + 1, order,
             IF policies_to_run[i] \in Range(all_policies)
             THEN run_policy(g, policies_to_run[i], order, vs)
             ELSE vs)

\* variant: the findings of the calls before are kept
reset_violations_kept(vs) == vs

\* self.violations = [] at the head of validate_all; vs is the list before
reset_violations(vs) == <<>>

\* validate_all; vs is self.violations before the call, args is <<>> for
\* policies=None and <<policies>> otherwise; the value is self.violations,
\* which is also what is returned
validate_all(g, vs, args, order) ==
    LET policies_to_run ==
            IF Len(args) > 0 /\ Len(args[1]) > 0 THEN args[1] ELSE all_policies
    IN run_policies(g, policies_to_run, 1, order, reset_violations(vs))

\* get_summary: the counts by severity of self.violations
get_summary(vs) ==
    [total |-> Len(vs),
     errors |-> Len(SelectSeq(vs, LAMBDA v : v.severity = "error")),
     warnings |-> Len(SelectSeq(vs, LAMBDA v : v.severity = "warning")),
     info |-> Len(SelectSeq(vs, LAMBDA v : v.severity = "info"))]

\* --------------------------------------------------------- SpecValidate
NoSuchPolicy == "no_such_policy"

ValidateEdgeLists(k) ==
    UNION {[1..n -> {TypedEdge(u, v, t) : u, v \in Range(Keys(k)), t \in DependencyTypes}] :
              n \in 0..MaxValidateEdges}

\* the explicit policy lists passed: the empty list, every single name, and
\* the pairs of names (repetitions and an unregistered name included)
PolicyLists ==
    {<<>>}
    \cup {<<p>> : p \in Range(all_policies) \cup {NoSuchPolicy}}
    \cup {<<p, q>> : p, q \in {"no_cycles", "no_orphans", NoSuchPolicy}}

\* a validator has been constructed on a constructed graph
InitValidate ==
    /\ \E k \in 0..Len(NameList) :
          \E es \in ValidateEdgeLists(k) :
             graph = NodeGraph(Keys(k),
                               [n \in Range(Keys(k)) |->
                                   Node(n, "variable", "user_input", None, None, None)],
                               es)
    /\ violations = <<>>
    /\ nodes = <<>> /\ edges = <<>>
    /\ pc = "built"
    /\ cache = EmptyDict
    /\ op = NoOp
    /\ result = NoResult
    /\ CompareIdle /\ MergeIdle /\ ExtractIdle
    /\ LayersIdle /\ BatchIdle /\ InstancesIdle

ValidateAllDefault ==
    /\ pc \in {"built", "done"}
    /\ \E order \in Listings(unused_nodes(graph)) :
          /\ violations' = validate_all(graph, violations, <<>>, order)
          /\ result' = Returned(violations')
    /\ op' = [name |-> "validate_all", args |-> <<>>]
    /\ pc' = "done"
    /\ UNCHANGED <<nodes, edges, graph, cache>>
    /\ UNCHANGED <<compareVars, mergeVars, extractVars>>
    /\ UNCHANGED <<layerVars, batchVars, instanceVars>>

ValidateAll ==
    /\ pc \in {"built", "done"}
    /\ \E policies \in PolicyLists :
          /\ \E order \in Listings(unused_nodes(graph)) :
                /\ violations' = validate_all(graph, violations, <<policies>>, order)
                /\ result' = Returned(violations')
          /\ op' = [name |-> "validate_all", args |-> <<policies>>]
    /\ pc' = "done"
    /\ UNCHANGED <<nodes, edges, graph, cache>>
    /\ UNCHANGED <<compareVars, mergeVars, extractVars>>
    /\ UNCHANGED <<layerVars, batchVars, instanceVars>>

\* validator.get_summary()
GetSummary ==
    /\ pc \in {"built", "done"}
    /\ result' = Returned(get_summary(violations))
    /\ op' = [name |-> "get_summary", args |-> <<>>]
    /\ pc' = "done"
    /\ UNCHANGED <<nodes, edges, graph, cache, violations>>
    /\ UNCHANGED <<compareVars, mergeVars, extractVars>>
    /\ UNCHANGED <<layerVars, batchVars, instanceVars>>

NextValidate == ValidateAllDefault \/ ValidateAll \/ GetSummary

SpecValidate == InitValidate /\ [][NextValidate]_vars

\* the findings of the registered policies named in the list P, in order
RECURSIVE FindingsOf(_, _, _)
FindingsOf(g, P, i) ==
    IF i > Len(P) THEN <<>>
    ELSE (IF P[i] \in Range(all_policies)
          THEN run_policy(g, P[i], <<>>, <<>>) ELSE <<>>)
         \o FindingsOf(g, P, i + 1)

\* C14 as claimed: with an explicit policy list P (the empty list and
\* unregistered names included) validate_all returns exactly the findings of
\* the registered policies named in P, so every finding's rule_name is in P;
\* with no list it returns the findings of all five registered policies.
C14_AsClaimed ==
    Called("validate_all") =>
        /\ result.kind = "ok"
        /\ op.args # <<>> =>
              /\ \A i \in 1..Len(result.value) :
                    result.value[i].rule_name \in Range(op.args[1])
              /\ result.value = FindingsOf(graph, op.args[1], 1)
        /\ op.args = <<>> => result.value = FindingsOf(graph, all_policies, 1)

\* C15: validate_all(['no_cycles']) returns one error finding for each cycle
\* of find_cycles() and nothing else: there is an error finding exactly when
\* the graph has a cycle.
C15_NoCyclesPolicy ==
    (Called("validate_all") /\ op.args = <<<<"no_cycles">>>>) =>
        /\ Len(result.value) = Len(find_cycles(graph))
        /\ \A i \in 1..Len(result.value) :
              /\ result.value[i].rule_name = "no_cycles"
              /\ result.value[i].severity = "error"
              /\ result.value[i].metadata.cycle = find_cycles(graph)[i]
        /\ (\E i \in 1..Len(result.value) : result.value[i].severity = "error")
              <=> HasDirectedCycle(graph)

\* two cycles have been reported
C15_Witness ==
    /\ Called("validate_all") /\ op.args = <<<<"no_cycles">>>>
    /\ Len(result.value) = 2

\* n is an endpoint of no edge
Isolated(g, n) == \A p \in EdgePairs(g) : p[1] # n /\ p[2] # n

\* C16: validate_all(['no_orphans']) returns one warning finding for each
\* entity without dependencies and dependents and none for another entity;
\* an entity with no edges is both a root and an orphan.
C16_NoOrphansPolicy ==
    (Called("validate_all") /\ op.args = <<<<"no_orphans">>>>) =>
        /\ \A i \in 1..Len(result.value) :
              /\ result.value[i].rule_name = "no_orphans"
              /\ result.value[i].severity = "warning"
              /\ Isolated(graph, result.value[i].node_name)
              /\ \A j \in 1..Len(result.value) :
                    result.value[i].node_name = result.value[j].node_name => i = j
        /\ \A n \in Range(graph.nodes) :
              Isolated(graph, n) =>
                 /\ \E i \in 1..Len(result.value) : result.value[i].node_name = n
                 /\ n \in Range(find_roots(graph))
                 /\ n \in Range(find_orphans(graph))

\* an orphan has been reported beside a root that has a dependent
C16_Witness ==
    /\ Called("validate_all") /\ op.args = <<<<"no_orphans">>>>
    /\ Len(result.value) = 1
    /\ \E n \in Range(find_roots(graph)) : ~Isolated(graph, n)

\* what validate_all with the arguments args finds on a validator that has
\* no finding yet
FreshFindings(g, args) ==
    {validate_all(g, <<>>, args, order) : order \in Listings(unused_nodes(g))}

\* the validator's findings are those of the last validate_all call alone,
\* and a summary counts the validator's findings by severity
LastCallOnly ==
    /\ Called("validate_all") =>
          /\ result = Returned(violations)
          /\ violations \in FreshFindings(graph, op.args)
    /\ Called("get_summary") =>
          /\ result.value.total = Len(violations)
          /\ result.value.total =
                result.value.errors + result.value.warnings + result.value.info

\* get_summary leaves the findings as the last validate_all call left them
SummaryKeepsFindings == op'.name = "get_summary" => violations' = violations

\* C27: after any sequence of validate_all calls on one validator, the
\* findings and get_summary() are those of the most recent call alone
\* (nothing is carried over from the calls before), and the summary has
\* total = errors + warnings + info = the number of findings of that call.
C27_FindingsOfLastCall == []LastCallOnly /\ [][SummaryKeepsFindings]_vars

\* the summary of a call that found one cycle and one orphan, on a graph
\* on which all policies together find more
C27_Witness ==
    /\ Called("get_summary")
    /\ result.value = [total |-> 2, errors |-> 1, warnings |-> 1, info |-> 0]
    /\ Len(violations) = 2
    /\ violations[1].rule_name = "no_cycles"
    /\ violations[2].rule_name = "no_orphans"

MaxMergeEdges == 2

\* the files the merged graphs were extracted from, in input order
FileList == <<"first.yml", "second.yml">>

\* the entity names of the merged graphs
MergeNames == {"A", "B"}

\* types.Edge with its type and provenance
SourcedEdge(u, v, t, file_path, line_number) ==
    [from_node |-> u, to_node |-> v, dep_type |-> t,
     file_path |-> file_path, line_number |-> line_number]

\* the loop over graph.nodes.items(); m is merged_nodes (its keys in
\* insertion order and the Node of each), merged_edges, edges_seen
RECURSIVE merge_nodes(_, _, _)
merge_nodes(g, i, m) ==
    IF i > Len(g.nodes) THEN m
    ELSE LET name == g.nodes[i]
         IN merge_nodes(g, i + 1,
                IF name \in Range(m.keys) THEN m
                ELSE [m EXCEPT !.keys = Append(@, name),
                               !.node = [x \in DOMAIN m.node \cup {name} |->
                                            IF x = name THEN g.node[name] ELSE m.node[x]]])

RECURSIVE merge_edges(_, _, _)

\* variant: every edge is kept
merge_edges_keep_all(g, i, m) ==
    IF i > Len(g.edges) THEN m
    ELSE LET edge == g.edges[i]
             edge_key == <<edge.from_node, edge.to_node>>
         IN merge_edges(g, i + 1,
                [m EXCEPT !.merged_edges = Append(@, edge),
                          !.edges_seen = @ \cup {edge_key}])
\* the loop over graph.edges
merge_edges(g, i, m) ==
    IF i > Len(g.edges) THEN m
    ELSE LET edge == g.edges[i]
             edge_key == <<edge.from_node, edge.to_node>>
         IN merge_edges(g, i + 1,
                IF edge_key \in m.edges_seen THEN m
                ELSE [m EXCEPT !.merged_edges = Append(@, edge),
                               !.edges_seen = @ \cup {edge_key}])

\* the loop over graphs
RECURSIVE merge_each(_, _, _)
merge_each(gs, i, m) ==
    IF i > Len(gs) THEN m
    ELSE merge_each(gs, i + 1, merge_edges(gs[i], 1, merge_nodes(gs[i], 1, m)))

\* merge_graphs: the constructed graph, or the error of its construction
merge_graphs(gs) ==
    LET m == merge_each(gs, 1, [keys |-> <<>>, node |-> EmptyDict,
                                merged_edges |-> <<>>, edges_seen |-> {}])
    IN IF HasBadEndpoint(m.keys, m.merged_edges)
       THEN GraphError(FirstBadEndpoint(m.keys, m.merged_edges, 1))
       ELSE Returned(NodeGraph(m.keys, m.node, m.merged_edges))

\* ------------------------------------------------------------ SpecMerge
\* the constructed graphs that may come from one file: any entities, and
\* edges between them that carry the file and their position as provenance
GraphsOf(file_path) ==
    UNION {
      {NodeGraph(ns,
                 [n \in Range(ns) |->
                     Node(n, "variable", "user_input", None, file_path, None)],
                 [i \in 1..Len(ps) |->
                     SourcedEdge(ps[i][1], ps[i][2], "implicit", file_path, i)]) :
          ps \in UNION {[1..n -> Range(ns) \X Range(ns)] : n \in 0..MaxMergeEdges}} :
      ns \in UNION {Listings(S) : S \in SUBSET MergeNames}}

\* the lists that hold a graph for each of the first k files
RECURSIVE GraphLists(_)
GraphLists(k) ==
    IF k = 0 THEN {<<>>}
    ELSE {Append(gs, g) : gs \in GraphLists(k - 1), g \in GraphsOf(FileList[k])}

\* the input list has been built
InitMerge ==
    /\ \E k \in 0..Len(FileList) : graphs \in GraphLists(k)
    /\ nodes = <<>> /\ edges = <<>>
    /\ pc = "built"
    /\ graph = NoGraph
    /\ cache = EmptyDict
    /\ op = NoOp
    /\ result = NoResult
    /\ ValidatorIdle /\ CompareIdle /\ ExtractIdle
    /\ LayersIdle /\ BatchIdle /\ InstancesIdle

MergeGraphs ==
    /\ pc = "built"
    /\ result' = merge_graphs(graphs)
    /\ graph' = IF result'.kind = "ok" THEN result'.value ELSE graph
    /\ op' = [name |-> "merge_graphs", args |-> <<>>]
    /\ pc' = "done"
    /\ UNCHANGED <<nodes, edges, cache, graphs>>
    /\ UNCHANGED <<validatorVars, compareVars, extractVars>>
    /\ UNCHANGED <<layerVars, batchVars, instanceVars>>

NextMerge == MergeGraphs

SpecMerge == InitMerge /\ [][NextMerge]_vars

\* the edges of all inputs, in input order
RECURSIVE AllEdges(_, _)
AllEdges(gs, i) == IF i > Len(gs) THEN <<>> ELSE gs[i].edges \o AllEdges(gs, i + 1)

AllNames(gs) == UNION {Range(gs[i].nodes) : i \in 1..Len(gs)}

PairOf(e) == <<e.from_node, e.to_node>>

\* the inputs in the opposite order
Reversed(gs) == [i \in 1..Len(gs) |-> gs[Len(gs) + 1 - i]]

\* C17: merge_graphs always constructs a graph; its entity names are the
\* union of the inputs' names, each entity being the Node of the first input
\* that has the name; it holds exactly one edge for each pair (from, to) of
\* any input, the first one in input order; so the set of names and the set
\* of pairs are the same for the inputs in another order.
C17_MergeFirstWins ==
    Called("merge_graphs") =>
        LET all == AllEdges(graphs, 1)
        IN /\ result.kind = "ok"
           /\ ~HasBadEndpoint(graph.nodes, graph.edges)
           /\ Range(graph.nodes) = AllNames(graphs)
           /\ \A i, j \in 1..Len(graph.nodes) : graph.nodes[i] = graph.nodes[j] => i = j
           /\ \A n \in Range(graph.nodes) :
                 \E i \in 1..Len(graphs) :
                    /\ n \in Range(graphs[i].nodes)
                    /\ \A j \in 1..(i - 1) : n \notin Range(graphs[j].nodes)
                    /\ graph.node[n] = graphs[i].node[n]
           /\ {PairOf(graph.edges[i]) : i \in 1..Len(graph.edges)}
                 = {PairOf(all[i]) : i \in 1..Len(all)}
           /\ \A i, j \in 1..Len(graph.edges) :
                 PairOf(graph.edges[i]) = PairOf(graph.edges[j]) => i = j
           /\ \A i \in 1..Len(graph.edges) :
                 \E k \in 1..Len(all) :
                    /\ graph.edges[i] = all[k]
                    /\ \A j \in 1..(k - 1) : PairOf(all[j]) # PairOf(all[k])
           /\ LET other == merge_graphs(Reversed(graphs))
              IN /\ other.kind = "ok"
                 /\ Range(other.value.nodes) = Range(graph.nodes)
                 /\ EdgePairs(other.value) = EdgePairs(graph)

\* two graphs that share an entity and a pair (from, to) have been merged,
\* and the first of them has that pair twice
C17_Witness ==
    /\ Called("merge_graphs")
    /\ Len(graphs) = 2
    /\ Range(graphs[1].nodes) \cap Range(graphs[2].nodes) # {}
    /\ Range(graphs[1].nodes) # Range(graphs[2].nodes)
    /\ EdgePairs(graphs[1]) \cap EdgePairs(graphs[2]) # {}
    /\ Len(graphs[1].edges) > Cardinality(EdgePairs(graphs[1]))
    /\ Len(graph.edges) = 1

\* ==================================================== parser.extract_edges
\* the most extraction steps of one pass
MaxSteps == 2

MAX_AST_NODES == 10000
MAX_AST_DEPTH == 100
MAX_CODE_SIZE == 100000

\* self.file_path of the parser
ParserFilePath == "interview.yml"

\* one call of add_edge
Call(from_node, to_node, dep_type, line_num) ==
    [from_node |-> from_node, to_node |-> to_node, dep_type |-> dep_type,
     line_num |-> line_num]

\* variant: a dependency of an entity on itself is kept
add_edge_self_reference(ns, st, call) ==
    IF call.from_node \in Range(ns) /\ call.to_node \in Range(ns)
       /\ <<call.from_node, call.to_node>> \notin st.edges_seen
    THEN [edges |-> Append(st.edges,
                       SourcedEdge(call.from_node, call.to_node, call.dep_type,
                                   ParserFilePath, call.line_num)),
          edges_seen |-> st.edges_seen \cup {<<call.from_node, call.to_node>>}]
    ELSE st

\* variant: edges_seen is not consulted
add_edge_unseen(ns, st, call) ==
    IF call.from_node \in Range(ns) /\ call.to_node \in Range(ns)
       /\ call.from_node # call.to_node
    THEN [edges |-> Append(st.edges,
                       SourcedEdge(call.from_node, call.to_node, call.dep_type,
                                   ParserFilePath, call.line_num)),
          edges_seen |-> st.edges_seen \cup {<<call.from_node, call.to_node>>}]
    ELSE st
\* the closure add_edge of extract_edges; ns is nodes, st is edges, edges_seen
add_edge(ns, st, call) ==
    IF call.from_node \in Range(ns) /\ call.to_node \in Range(ns)
       /\ <<call.from_node, call.to_node>> \notin st.edges_seen
       /\ call.from_node # call.to_node
    THEN [edges |-> Append(st.edges,
                       SourcedEdge(call.from_node, call.to_node, call.dep_type,
                                   ParserFilePath, call.line_num)),
          edges_seen |-> st.edges_seen \cup {<<call.from_node, call.to_node>>}]
    ELSE st

\* the calls of add_edge made by one extraction rule, in order
RECURSIVE add_edges(_, _, _, _)
add_edges(ns, calls, i, st) ==
    IF i > Len(calls) THEN st
    ELSE add_edges(ns, calls, i + 1, add_edge(ns, st, calls[i]))

\* ------------------------------------------------------- text fragments
\* A fragment of text is described by what the two strategies read in it:
\* its terms in text order (plain names and attribute accesses), what
\* should_use_ast_parsing looks at (a Python keyword among the words, the
\* number of non-empty lines, an '=' or ':' in a line) and what
\* extract_variables_from_python_ast measures (the length, whether
\* ast.parse accepts the text, the number of tree nodes, the tree's depth).
NameTerm(id) == [kind |-> "Name", id |-> id, attr |-> ""]
AttributeTerm(obj, attr) == [kind |-> "Attribute", id |-> obj, attr |-> attr]

\* the keyword standing in the text when has_keyword holds
Keyword == "if"

should_use_ast_parsing(text) ==
    \/ text.has_keyword
    \/ text.lines > 2
    \/ text.lines > 1 /\ text.has_statement_mark

\* OBJECT_ATTR_PATTERN.findall(text)
object_attr_findall(text) ==
    LET accesses == SelectSeq(text.terms, LAMBDA t : t.kind = "Attribute")
    IN [i \in 1..Len(accesses) |-> <<accesses[i].id, accesses[i].attr>>]

\* VARIABLE_REF_PATTERN.findall(text)
RECURSIVE term_identifiers(_, _)
term_identifiers(terms, i) ==
    IF i > Len(terms) THEN <<>>
    ELSE (IF terms[i].kind = "Attribute"
          THEN <<terms[i].id, terms[i].attr>> ELSE <<terms[i].id>>)
         \o term_identifiers(terms, i + 1)

variable_ref_findall(text) ==
    (IF text.has_keyword THEN <<Keyword>> ELSE <<>>) \o term_identifiers(text.terms, 1)

\* what VariableVisitor collects from the tree of the text
VariableVisitor(text) ==
    LET accesses == {t \in Range(text.terms) : t.kind = "Attribute"}
    IN [variables |-> {t.id : t \in Range(text.terms)},
        objects |-> {t.id : t \in accesses},
        attributes |-> {<<t.id, t.attr>> : t \in accesses}]

extract_variables_from_python_ast(code) ==
    IF code.size > MAX_CODE_SIZE
    THEN [variables |-> {}, objects |-> {}, attributes |-> {}]
    ELSE IF ~code.parses
    THEN [variables |-> {}, objects |-> {}, attributes |-> {}]
    ELSE IF code.node_count > MAX_AST_NODES
    THEN [variables |-> {}, objects |-> {}, attributes |-> {}]
    ELSE IF code.depth > MAX_AST_DEPTH
    THEN [variables |-> {}, objects |-> {}, attributes |-> {}]
    ELSE VariableVisitor(code)

\* the loop over the (object, attribute) pairs; c is the calls made and
\* processed_objects
RECURSIVE attribute_calls(_, _, _, _, _)

\* variant: the attribute is taken for the object
attribute_calls_by_attribute(attrs, i, dst_name, line_num, c) ==
    IF i > Len(attrs) THEN c
    ELSE LET obj_name == attrs[i][2]
         IN attribute_calls(attrs, i + 1, dst_name, line_num,
                IF obj_name # dst_name /\ obj_name \notin c.processed_objects
                THEN [calls |-> Append(c.calls,
                                    Call(obj_name, dst_name, "implicit", line_num)),
                      processed_objects |-> c.processed_objects \cup {obj_name}]
                ELSE c)
attribute_calls(attrs, i, dst_name, line_num, c) ==
    IF i > Len(attrs) THEN c
    ELSE LET obj_name == attrs[i][1]
         IN attribute_calls(attrs, i + 1, dst_name, line_num,
                IF obj_name # dst_name /\ obj_name \notin c.processed_objects
                THEN [calls |-> Append(c.calls,
                                    Call(obj_name, dst_name, "implicit", line_num)),
                      processed_objects |-> c.processed_objects \cup {obj_name}]
                ELSE c)

\* the loop over the plain references; objects is the set of object names
RECURSIVE variable_calls(_, _, _, _, _, _)
variable_calls(names, i, dst_name, line_num, objects, c) ==
    IF i > Len(names) THEN c
    ELSE variable_calls(names, i + 1, dst_name, line_num, objects,
             IF names[i] # dst_name /\ names[i] \notin c.processed_objects
                /\ names[i] \notin objects
             THEN [c EXCEPT !.calls = Append(@, Call(names[i], dst_name, "implicit", line_num))]
             ELSE c)

\* the pattern-based scan of _extract_implicit_dependencies
regex_calls(text, dst_name, line_num) ==
    LET object_attrs == object_attr_findall(text)
        c == attribute_calls(object_attrs, 1, dst_name, line_num,
                             [calls |-> <<>>, processed_objects |-> {}])
    IN variable_calls(variable_ref_findall(text), 1, dst_name, line_num,
                      {object_attrs[i][1] : i \in 1..Len(object_attrs)}, c).calls

\* the calls of add_edge made by _extract_implicit_dependencies; attributes
\* and variables are the two sets of the syntax tree in the order in which
\* they are iterated.  extract_variables_from_python_ast returns on every
\* path, so the except branch that falls through to the patterns is never
\* taken.
extract_implicit_dependencies(text, dst_name, line_num, attributes, variables) ==
    IF should_use_ast_parsing(text)
    THEN LET c == attribute_calls(attributes, 1, dst_name, line_num,
                                  [calls |-> <<>>, processed_objects |-> {}])
         IN variable_calls(variables, 1, dst_name, line_num,
                           extract_variables_from_python_ast(text).objects, c).calls
    ELSE regex_calls(text, dst_name, line_num)

\* ---------------------------------------------------------- SpecExtract
\* the entity names of a parsed interview
ExtractNames == <<"A", "B">>

\* the names a text or a dependency key may mention
Mentioned(ns) == Range(ns) \cup {NoSuchName}

Terms(ns) ==
    {NameTerm(n) : n \in Mentioned(ns)}
    \cup {AttributeTerm(o, a) : o, a \in Mentioned(ns)}

\* the layouts of a text: one line; a keyword; three lines; two lines with
\* and without an '=' or ':'
Layouts ==
    {[has_keyword |-> FALSE, lines |-> 1, has_statement_mark |-> FALSE],
     [has_keyword |-> TRUE, lines |-> 1, has_statement_mark |-> TRUE],
     [has_keyword |-> FALSE, lines |-> 3, has_statement_mark |-> FALSE],
     [has_keyword |-> FALSE, lines |-> 2, has_statement_mark |-> TRUE],
     [has_keyword |-> FALSE, lines |-> 2, has_statement_mark |-> FALSE]}

\* the measures of a text: all at their limits, or one of them beyond
Measures ==
    {[size |-> MAX_CODE_SIZE + a, parses |-> b,
      node_count |-> MAX_AST_NODES + c, depth |-> MAX_AST_DEPTH + d] :
        a \in {0, 1}, b \in BOOLEAN, c \in {0, 1}, d \in {0, 1}}

WithinLimits ==
    [size |-> MAX_CODE_SIZE, parses |-> TRUE,
     node_count |-> MAX_AST_NODES, depth |-> MAX_AST_DEPTH]

Text(terms, layout, measure) ==
    [terms |-> terms,
     has_keyword |-> layout.has_keyword, lines |-> layout.lines,
     has_statement_mark |-> layout.has_statement_mark,
     size |-> measure.size, parses |-> measure.parses,
     node_count |-> measure.node_count, depth |-> measure.depth]

\* the texts of one or two terms
Texts(ns) ==
    {Text(terms, layout, measure) :
        terms \in {<<t>> : t \in Terms(ns)} \cup {<<t, u>> : t, u \in Terms(ns)},
        layout \in Layouts,
        measure \in {m \in Measures :
                        Cardinality({f \in DOMAIN m : m[f] # WithinLimits[f]}) <= 1}}

\* the first discovery of each pair of entities: the type and line of the
\* first add_edge call for the pair
RECURSIVE first_discoveries(_, _, _, _)
first_discoveries(ns, calls, i, found) ==
    IF i > Len(calls) THEN found
    ELSE LET pair == <<calls[i].from_node, calls[i].to_node>>
         IN first_discoveries(ns, calls, i + 1,
                IF pair \in DOMAIN found \/ pair \notin Range(ns) \X Range(ns)
                THEN found
                ELSE [p \in DOMAIN found \cup {pair} |->
                         IF p = pair
                         THEN [dep_type |-> calls[i].dep_type, line_num |-> calls[i].line_num]
                         ELSE found[p]])

\* extract_edges has been entered: edges and edges_seen are empty
InitExtract ==
    /\ \E k \in 0..Len(ExtractNames) : nodes = SubSeq(ExtractNames, 1, k)
    /\ edges = <<>>
    /\ edges_seen = {}
    /\ first_found = EmptyDict
    /\ steps = 0
    /\ pc = "built"
    /\ graph = NoGraph
    /\ cache = EmptyDict
    /\ op = NoOp
    /\ result = NoResult
    /\ ValidatorIdle /\ CompareIdle /\ MergeIdle
    /\ LayersIdle /\ BatchIdle /\ InstancesIdle

\* the state after the calls of one extraction rule
Discover(rule, args, calls) ==
    LET st == add_edges(nodes, calls, 1, [edges |-> edges, edges_seen |-> edges_seen])
    IN /\ edges' = st.edges
       /\ edges_seen' = st.edges_seen
       /\ first_found' = first_discoveries(nodes, calls, 1, first_found)
       /\ steps' = steps + 1
       /\ op' = [name |-> rule, args |-> args]
       /\ result' = ReturnedNone
       /\ pc' = "done"
       /\ UNCHANGED <<nodes, graph, cache>>
       /\ UNCHANGED <<validatorVars, compareVars, mergeVars>>
       /\ UNCHANGED <<layerVars, batchVars, instanceVars>>

\* a dependency key of an item names dep; the step's line is its own
ExtractExplicit ==
    /\ pc \in {"built", "done"}
    /\ steps < MaxSteps
    /\ \E dep \in Mentioned(nodes), dst_name \in Mentioned(nodes) :
          Discover("explicit", <<dep, dst_name>>,
                   <<Call(dep, dst_name, "explicit", steps + 1)>>)

\* a conditional of an item depends on dep_var
ExtractConditional ==
    /\ pc \in {"built", "done"}
    /\ steps < MaxSteps
    /\ \E dep_var \in Mentioned(nodes), dst_name \in Mentioned(nodes) :
          Discover("conditional", <<dep_var, dst_name>>,
                   IF dep_var \in Range(nodes)
                   THEN <<Call(dep_var, dst_name, "implicit", steps + 1)>>
                   ELSE <<>>)

\* a text field of an item is scanned
ExtractImplicit ==
    /\ pc \in {"built", "done"}
    /\ steps < MaxSteps
    /\ \E text \in Texts(nodes), dst_name \in Mentioned(nodes) :
          LET tree == extract_variables_from_python_ast(text)
          IN \E attributes \in Listings(tree.attributes),
                variables \in Listings(tree.variables) :
                Discover("implicit", <<dst_name>>,
                         extract_implicit_dependencies(text, dst_name, steps + 1,
                                                       attributes, variables))

\* return edges
ReturnEdges ==
    /\ pc \in {"built", "done"}
    /\ pc' = "returned"
    /\ op' = [name |-> "extract_edges", args |-> <<>>]
    /\ result' = Returned(edges)
    /\ UNCHANGED <<nodes, edges, graph, cache>>
    /\ UNCHANGED <<validatorVars, compareVars, mergeVars, extractVars>>
    /\ UNCHANGED <<layerVars, batchVars, instanceVars>>

NextExtract == ExtractExplicit \/ ExtractConditional \/ ExtractImplicit \/ ReturnEdges

SpecExtract == InitExtract /\ [][NextExtract]_vars

\* C18: within one extract_edges pass, after any discoveries by any rules,
\* the edge list has at most one edge for each pair (from, to), and that edge
\* is the first one discovered: it keeps the dependency type and the line of
\* the first discovery.
C18_FirstDiscoveryKept ==
    /\ \A i, j \in 1..Len(edges) : PairOf(edges[i]) = PairOf(edges[j]) => i = j
    /\ \A i \in 1..Len(edges) :
          /\ PairOf(edges[i]) \in DOMAIN first_found
          /\ edges[i].dep_type = first_found[PairOf(edges[i])].dep_type
          /\ edges[i].line_number = first_found[PairOf(edges[i])].line_num
    /\ pc = "returned" => result.value = edges

\* a pair found by a dependency key has been found again by a conditional
C18_Witness ==
    /\ steps = 2
    /\ op.name = "conditional"
    /\ Len(edges) = 1
    /\ PairOf(edges[1]) = <<op.args[1], op.args[2]>>
    /\ edges[1].dep_type = "explicit"
    /\ edges[1].line_number = 1

\* --------------------------------------------------------- SpecImplicit
\* One scan of a text field, with the text kept in op.  The pass is where
\* the explicit rules have left it: no edge yet, or one edge found at line 1.
InitImplicit ==
    /\ \E k \in 0..Len(ExtractNames) : nodes = SubSeq(ExtractNames, 1, k)
    /\ \E calls \in {<<>>} \cup {<<Call(p[1], p[2], t, 1)>> :
                                   p \in {q \in Range(nodes) \X Range(nodes) : q[1] # q[2]},
                                   t \in DependencyTypes} :
          LET st == add_edges(nodes, calls, 1, [edges |-> <<>>, edges_seen |-> {}])
          IN /\ edges = st.edges
             /\ edges_seen = st.edges_seen
             /\ first_found = first_discoveries(nodes, calls, 1, EmptyDict)
             /\ steps = Len(calls)
    /\ pc = "built"
    /\ graph = NoGraph
    /\ cache = EmptyDict
    /\ op = NoOp
    /\ result = NoResult
    /\ ValidatorIdle /\ CompareIdle /\ MergeIdle
    /\ LayersIdle /\ BatchIdle /\ InstancesIdle

\* _extract_implicit_dependencies(text, dst_name, line_num, add_edge)
ScanText ==
    /\ pc = "built"
    /\ \E text \in Texts(nodes), dst_name \in Mentioned(nodes) :
          LET tree == extract_variables_from_python_ast(text)
          IN \E attributes \in Listings(tree.attributes),
                variables \in Listings(tree.variables) :
                Discover("_extract_implicit_dependencies", <<text, dst_name>>,
                         extract_implicit_dependencies(text, dst_name, steps + 1,
                                                       attributes, variables))

NextImplicit == ScanText

SpecImplicit == InitImplicit /\ [][NextImplicit]_vars

Scanned == Called("_extract_implicit_dependencies")

\* the edges the scan has appended
Produced == SubSeq(edges, steps, Len(edges))

\* the syntax-tree analysis rejects the text
Rejected(text) ==
    \/ text.size > MAX_CODE_SIZE
    \/ ~text.parses
    \/ text.node_count > MAX_AST_NODES
    \/ text.depth > MAX_AST_DEPTH

\* the scanned text is the attribute access obj.attr of the owner's
\* expression: obj is an entity, attr is no entity's name, and the strategy
\* is the pattern-based one or the syntax-tree one that accepts the text
AttributeAccessScanned(obj, attr) ==
    /\ Scanned
    /\ op.args[1].terms = <<AttributeTerm(obj, attr)>>
    /\ obj \in Range(nodes)
    /\ attr \notin Range(nodes)
    /\ op.args[2] \in Range(nodes)
    /\ ~should_use_ast_parsing(op.args[1]) \/ ~Rejected(op.args[1])

\* C19 as claimed: for an owner whose expression text is obj.attr, obj an
\* entity and attr no entity's name, the scan produces exactly one implicit
\* edge obj -> owner and no edge from attr, under both strategies.
C19_AsClaimed ==
    \A obj, attr \in Mentioned(nodes) :
        AttributeAccessScanned(obj, attr) =>
            /\ Produced = <<SourcedEdge(obj, op.args[2], "implicit", ParserFilePath, steps)>>
            /\ \A i \in 1..Len(edges) : edges[i].from_node # attr

\* C19: when obj is not the owner and the pair (obj, owner) has not been
\* discovered earlier in the pass, the scan of obj.attr produces exactly one
\* implicit edge obj -> owner; otherwise it produces no edge; in both cases
\* there is no edge from attr, under both strategies.
C19_AttributeAccess ==
    \A obj, attr \in Mentioned(nodes) :
        AttributeAccessScanned(obj, attr) =>
            /\ Produced =
                  IF obj # op.args[2]
                     /\ \A i \in 1..(steps - 1) : PairOf(edges[i]) # <<obj, op.args[2]>>
                  THEN <<SourcedEdge(obj, op.args[2], "implicit", ParserFilePath, steps)>>
                  ELSE <<>>
            /\ \A i \in 1..Len(edges) : edges[i].from_node # attr

\* obj.attr has been scanned by the syntax-tree strategy for another owner
\* and has produced its edge
C19_Witness ==
    /\ \E obj, attr \in Mentioned(nodes) : AttributeAccessScanned(obj, attr)
    /\ should_use_ast_parsing(op.args[1])
    /\ Len(Produced) = 1

\* C20 as claimed: when the syntax-tree analysis is selected for a text and
\* rejects it (size, node count or depth above the limit, or the text does
\* not parse), the scan falls back to the patterns and emits the edges the
\* pattern-based scan finds, and raises no error.
C20_AsClaimed ==
    (Scanned /\ should_use_ast_parsing(op.args[1]) /\ Rejected(op.args[1])) =>
        /\ result.kind \in {"ok", "None"}
        /\ edges =
              add_edges(nodes, regex_calls(op.args[1], op.args[2], steps), 1,
                        [edges |-> SubSeq(edges, 1, steps - 1),
                         edges_seen |-> {PairOf(edges[i]) : i \in 1..(steps - 1)}]).edges

\* ------------------------------------------- claims: get_dependency_layers
\* the layer index (from 0) of an entity listed in exactly one layer
LayerIndex(ls, n) == (CHOOSE i \in 1..Len(ls) : n \in Range(ls[i])) - 1

MaxOf(S) == CHOOSE m \in S : \A x \in S : x <= m

\* the index of every entity is 0 without dependencies and otherwise one
\* more than the largest index of its direct dependencies
DepthLayered(g, ls) ==
    \A n \in Range(g.nodes) :
        LET deps == Range(get_dependencies(g, n))
        IN LayerIndex(ls, n) =
              IF deps = {} THEN 0
              ELSE 1 + MaxOf({LayerIndex(ls, d) : d \in deps})

\* C24 as claimed: for every acyclic graph get_dependency_layers lists each
\* entity in exactly one layer, at index 0 without dependencies and
\* otherwise at 1 plus the largest index of its direct dependencies, and
\* no returned layer is empty.
C24_AsClaimed ==
    (Called("get_dependency_layers") /\ ~HasDirectedCycle(graph)) =>
        /\ result.kind = "ok"
        /\ IsPartition(graph, result.value)
        /\ DepthLayered(graph, result.value)
        /\ \A i \in 1..Len(result.value) : result.value[i] # <<>>

\* C29 as claimed: for every acyclic graph get_dependency_layers() returns
\* as many layers as get_execution_order() with the default start, and the
\* same set of entity names at every index.
C29_AsClaimed ==
    (Called("get_dependency_layers") /\ ~HasDirectedCycle(graph)) =>
        LET order == execution_layers(graph, find_roots(graph))
        IN /\ result.kind = "ok"
           /\ order.kind = "ok"
           /\ Len(result.value) = Len(order.value)
           /\ \A i \in 1..Len(result.value) :
                 Range(result.value[i]) = order.value[i]

\* ------------------------------------ get_dependency_layers, step by step
\* A frame of the call stack: the bottom frame is get_dependency_layers
\* itself, looping over graph.nodes; every other frame is one call of
\* calculate_depth(node_name), at its entry or in its loop over deps.
Frame(node_name, deps, i, best, at) ==
    [node_name |-> node_name, deps |-> deps, i |-> i, best |-> best, at |-> at]

Top == frames[Len(frames)]

\* the callee returns value: the caller takes it into its maximum and moves on
ReturnTo(fs, value) ==
    LET caller == fs[Len(fs) - 1]
    IN Append(SubSeq(fs, 1, Len(fs) - 2),
              Frame(caller.node_name, caller.deps, caller.i + 1,
                    Max2(caller.best, value), caller.at))

\* variant: the error is swallowed and the outer loop runs the entity again
overflow_retry(fs) ==
    [pc |-> "running", frames |-> <<fs[1]>>, result |-> NoResult]

\* a call beyond the recursion limit: RecursionError unwinds every frame
overflow(fs) ==
    [pc |-> "failed", frames |-> <<>>, result |-> RecursionError]

InitLayers ==
    /\ \E k \in 0..Len(NameList) :
          \E es \in EdgeLists(k) :
             /\ ~HasBadEndpoint(Keys(k), es)
             /\ graph = NewGraph(Keys(k), es)
    /\ nodes = <<>> /\ edges = <<>>
    /\ pc = "built"
    /\ cache = EmptyDict
    /\ op = NoOp
    /\ result = NoResult
    /\ LayersIdle
    /\ ValidatorIdle /\ CompareIdle /\ MergeIdle /\ ExtractIdle
    /\ BatchIdle /\ InstancesIdle

\* the call: depth_map = {}, then the loop over graph.nodes starts
StartLayers ==
    /\ pc = "built"
    /\ pc' = "running"
    /\ op' = [name |-> "get_dependency_layers", args |-> <<>>]
    /\ depth_map' = <<>>
    /\ frames' = <<Frame("", graph.nodes, 1, 0, "loop")>>
    /\ UNCHANGED <<nodes, edges, graph, cache, result>>
    /\ UNCHANGED <<validatorVars, compareVars, mergeVars, extractVars>>
    /\ UNCHANGED <<batchVars, instanceVars>>

\* calculate_depth(dep) is called from the loop of the top frame
CallCalculateDepth ==
    /\ pc = "running"
    /\ Top.at = "loop"
    /\ Top.i <= Len(Top.deps)
    /\ Len(frames) - 1 < RecursionLimit
    /\ frames' = Append(frames, Frame(Top.deps[Top.i], <<>>, 1, 0, "entry"))
    /\ UNCHANGED <<nodes, edges, pc, graph, cache, op, result, depth_map>>
    /\ UNCHANGED <<validatorVars, compareVars, mergeVars, extractVars>>
    /\ UNCHANGED <<batchVars, instanceVars>>

\* the same call when the stack is already at the recursion limit
RaiseRecursionError ==
    /\ pc = "running"
    /\ Top.at = "loop"
    /\ Top.i <= Len(Top.deps)
    /\ Len(frames) - 1 >= RecursionLimit
    /\ LET r == overflow(frames)
       IN /\ pc' = r.pc
          /\ frames' = r.frames
          /\ result' = r.result
    /\ UNCHANGED <<nodes, edges, graph, cache, op, depth_map>>
    /\ UNCHANGED <<validatorVars, compareVars, mergeVars, extractVars>>
    /\ UNCHANGED <<batchVars, instanceVars>>

\* if node_name in depth_map: return depth_map[node_name]
ReturnMemoized ==
    /\ pc = "running"
    /\ Top.at = "entry"
    /\ InDepthMap(depth_map, Top.node_name)
    /\ frames' = ReturnTo(frames, DepthOf(depth_map, Top.node_name))
    /\ UNCHANGED <<nodes, edges, pc, graph, cache, op, result, depth_map>>
    /\ UNCHANGED <<validatorVars, compareVars, mergeVars, extractVars>>
    /\ UNCHANGED <<batchVars, instanceVars>>

\* deps = graph.get_dependencies(node_name)
FetchDependencies ==
    /\ pc = "running"
    /\ Top.at = "entry"
    /\ ~InDepthMap(depth_map, Top.node_name)
    /\ frames' = Append(SubSeq(frames, 1, Len(frames) - 1),
                        Frame(Top.node_name,
                              get_dependencies(graph, Top.node_name), 1, 0, "loop"))
    /\ UNCHANGED <<nodes, edges, pc, graph, cache, op, result, depth_map>>
    /\ UNCHANGED <<validatorVars, compareVars, mergeVars, extractVars>>
    /\ UNCHANGED <<batchVars, instanceVars>>

\* depth_map[node_name] = depth; return depth
ReturnDepth ==
    /\ pc = "running"
    /\ Len(frames) >= 2
    /\ Top.at = "loop"
    /\ Top.i > Len(Top.deps)
    /\ LET depth == IF Len(Top.deps) = 0 THEN 0 ELSE Top.best + 1
       IN /\ depth_map' = SetDepth(depth_map, Top.node_name, depth)
          /\ frames' = ReturnTo(frames, depth)
    /\ UNCHANGED <<nodes, edges, pc, graph, cache, op, result>>
    /\ UNCHANGED <<validatorVars, compareVars, mergeVars, extractVars>>
    /\ UNCHANGED <<batchVars, instanceVars>>

\* the loop over graph.nodes is over: group by depth and return
ReturnLayers ==
    /\ pc = "running"
    /\ Len(frames) = 1
    /\ Top.i > Len(Top.deps)
    /\ result' = Returned(group_by_depth(depth_map))
    /\ frames' = <<>>
    /\ pc' = "done"
    /\ UNCHANGED <<nodes, edges, graph, cache, op, depth_map>>
    /\ UNCHANGED <<validatorVars, compareVars, mergeVars, extractVars>>
    /\ UNCHANGED <<batchVars, instanceVars>>

NextLayers ==
    \/ StartLayers
    \/ CallCalculateDepth
    \/ RaiseRecursionError
    \/ ReturnMemoized
    \/ FetchDependencies
    \/ ReturnDepth
    \/ ReturnLayers

\* the interpreter runs the one thread of the call until it returns or raises
SpecLayers == InitLayers /\ [][NextLayers]_vars /\ WF_vars(NextLayers)

\* C30: on every constructed graph, cycles and self-loops included,
\* get_dependency_layers ends after finitely many steps, with its layers
\* or with an error.
C30_Terminates == <>(pc \in {"done", "failed"})

\* the self-loop A -> A ends with RecursionError
C30_Witness ==
    /\ pc = "failed"
    /\ graph.edges = <<Edge("A", "A")>>
    /\ result = RecursionError

\* --------------------- the transitive-dependents caches of several graphs
MaxInstanceEdges == 2

\* the names of the entities of the instances
InstanceNames == <<"A", "B">>

\* at most this many DependencyGraph objects are alive
InstanceIds == {1, 2}

InstanceEdgeLists(k) ==
    UNION {[1..n -> {Edge(u, v) : u, v \in Range(SubSeq(InstanceNames, 1, k))}] :
              n \in 0..MaxInstanceEdges}

\* every graph the constructor accepts over the first k names
InstanceGraphs ==
    UNION {{NewGraph(SubSeq(InstanceNames, 1, k), es) : es \in InstanceEdgeLists(k)} :
              k \in 1..Len(InstanceNames)}

\* variant: _transitive_dependents_cache is one dict shared by all instances
cache_of_shared(cs, i) == cs[1]

\* self._transitive_dependents_cache of instance i
cache_of(cs, i) == cs[i]

\* each instance starts with the empty cache its constructor makes
InitInstances ==
    /\ \E n \in InstanceIds : instances \in [1..n -> InstanceGraphs]
    /\ caches = [i \in 1..Len(instances) |-> EmptyDict]
    /\ first_results = [i \in 1..Len(instances) |-> EmptyDict]
    /\ nodes = <<>> /\ edges = <<>>
    /\ pc = "built"
    /\ graph = NoGraph
    /\ cache = EmptyDict
    /\ op = NoOp
    /\ result = NoResult
    /\ ValidatorIdle /\ CompareIdle /\ MergeIdle /\ ExtractIdle
    /\ LayersIdle /\ BatchIdle

\* instances[i].get_transitive_dependents(name); first_results records the
\* first successful answer to each query
QueryInstance ==
    /\ pc \in {"built", "done"}
    /\ \E i \in 1..Len(instances) :
          \E name \in Range(InstanceNames) \cup {NoSuchName} :
             LET r == get_transitive_dependents(instances[i], cache_of(caches, i), name)
             IN /\ op' = [name |-> "get_transitive_dependents", args |-> <<i, name>>]
                /\ result' = r.result
                /\ caches' = [caches EXCEPT ![i] = r.cache]
                /\ first_results' =
                      IF r.result.kind = "ok" /\ name \notin DOMAIN first_results[i]
                      THEN [first_results EXCEPT ![i] =
                               [x \in DOMAIN @ \cup {name} |->
                                   IF x = name THEN r.result.value ELSE @[x]]]
                      ELSE first_results
    /\ pc' = "done"
    /\ UNCHANGED <<nodes, edges, graph, cache, instances>>
    /\ UNCHANGED <<validatorVars, compareVars, mergeVars, extractVars>>
    /\ UNCHANGED <<layerVars, batchVars>>

NextInstances == QueryInstance

SpecInstances == InitInstances /\ [][NextInstances]_vars

\* each cache holds exactly the names queried successfully on its instance,
\* with the set a fresh traversal computes
CachesSound ==
    \A i \in 1..Len(instances) :
        /\ DOMAIN caches[i] = DOMAIN first_results[i]
        /\ \A n \in DOMAIN caches[i] :
              /\ n \in Range(instances[i].nodes)
              /\ caches[i][n] = dependents_traversal(instances[i], n).result
              /\ caches[i][n] = ReachablePlus(EdgePairs(instances[i]), n)

\* a successful query returns what its first occurrence returned
RepeatedQuerySame ==
    (Called("get_transitive_dependents") /\ result.kind = "ok") =>
        result.value = first_results[op.args[1]][op.args[2]]

\* a step leaves the cache of every instance but the queried one alone
OtherCachesKept ==
    \A j \in 1..Len(instances) : j # op'.args[1] => caches'[j] = caches[j]

\* C23: after any sequence of get_transitive_dependents calls on any number
\* of instances, each cache holds entries only for the names queried
\* successfully on its instance, each cached set is the forward reachability
\* set a fresh traversal computes, a repeated query returns what the first
\* one returned, and a query never changes the cache of another instance.
C23_CachePerInstance ==
    /\ [](CachesSound /\ RepeatedQuerySame)
    /\ [][OtherCachesKept]_vars

\* two instances with different edges have answered the query for A, each
\* from its own cache, and the first one answers it again
C23_Witness ==
    /\ Len(instances) = 2
    /\ instances[1].edges = <<Edge("A", "B")>>
    /\ instances[2].edges = <<Edge("B", "A"), Edge("A", "A")>>
    /\ DOMAIN caches[1] = {"A"} /\ caches[1]["A"] = {"B"}
    /\ DOMAIN caches[2] = {"A", "B"} /\ caches[2]["A"] = {"A"}
    /\ Called("get_transitive_dependents")
    /\ op.args = <<1, "A">>
    /\ result = Returned({"B"})

\* ---------------------------------------------- utils.parse_multiple_files
\* the classes of the errors that reading and parsing one file may raise,
\* each with its base class
BaseClass(cls) ==
    CASE cls = "InvalidYAMLError" -> "DocassembleDAGError"
      [] cls = "GraphError" -> "DocassembleDAGError"
      [] cls = "DocassembleDAGError" -> "Exception"
      [] cls = "OSError" -> "Exception"
      [] OTHER -> "BaseException"

\* isinstance(an error of class cls, base)
RECURSIVE IsInstance(_, _)
IsInstance(cls, base) ==
    IF cls = base THEN TRUE
    ELSE IF cls = "BaseException" THEN FALSE
    ELSE IsInstance(BaseClass(cls), base)

\* what the try block does with one file: open and read raise OSError on an
\* unreadable file, the parser raises InvalidYAMLError on invalid input,
\* the constructor raises GraphError; otherwise the graph is built
FileErrors == {"OSError", "InvalidYAMLError", "GraphError"}

Parsed(file_path, g) == [file_path |-> file_path, raises |-> None, graph |-> g]
Failing(file_path, cls) == [file_path |-> file_path, raises |-> cls, graph |-> NoGraph]

OutcomesOf(file_path) ==
    {Parsed(file_path, g) : g \in GraphsOf(file_path)}
        \cup {Failing(file_path, cls) : cls \in FileErrors}

\* the outcomes of the first k files
RECURSIVE FileOutcomes(_)
FileOutcomes(k) ==
    IF k = 0 THEN {<<>>}
    ELSE {Append(fs, f) : fs \in FileOutcomes(k - 1), f \in OutcomesOf(FileList[k])}

\* variant: except DocassembleDAGError
handled_package_errors(cls) == IsInstance(cls, "DocassembleDAGError")

\* except Exception as e
handled(cls) == IsInstance(cls, "Exception")

\* the loop over file_paths: b.graphs is the list built so far, b.raised the
\* class of the error that left the loop
RECURSIVE parse_each(_, _, _)
parse_each(fs, i, b) ==
    IF i > Len(fs) THEN b
    ELSE IF fs[i].raises = None
         THEN parse_each(fs, i + 1, [b EXCEPT !.graphs = Append(@, fs[i].graph)])
    ELSE IF handled(fs[i].raises)
         THEN parse_each(fs, i + 1, b)
    ELSE [b EXCEPT !.raised = fs[i].raises]

EmptyGraph == NodeGraph(<<>>, EmptyDict, <<>>)

Raised(cls) == [kind |-> cls, value |-> <<>>, node_name |-> "", cycles |-> <<>>]

parse_multiple_files(fs) ==
    LET b == parse_each(fs, 1, [graphs |-> <<>>, raised |-> None])
    IN IF b.raised # None THEN Raised(b.raised)
       ELSE IF Len(b.graphs) = 0 THEN Returned(EmptyGraph)
       ELSE merge_graphs(b.graphs)

InitBatch ==
    /\ \E k \in 0..Len(FileList) : files \in FileOutcomes(k)
    /\ nodes = <<>> /\ edges = <<>>
    /\ pc = "built"
    /\ graph = NoGraph
    /\ cache = EmptyDict
    /\ op = NoOp
    /\ result = NoResult
    /\ ValidatorIdle /\ CompareIdle /\ MergeIdle /\ ExtractIdle
    /\ LayersIdle /\ InstancesIdle

ParseMultipleFiles ==
    /\ pc = "built"
    /\ result' = parse_multiple_files(files)
    /\ graph' = IF result'.kind = "ok" THEN result'.value ELSE graph
    /\ op' = [name |-> "parse_multiple_files", args |-> <<>>]
    /\ pc' = "done"
    /\ UNCHANGED <<nodes, edges, cache, files>>
    /\ UNCHANGED <<validatorVars, compareVars, mergeVars, extractVars>>
    /\ UNCHANGED <<layerVars, instanceVars>>

NextBatch == ParseMultipleFiles

SpecBatch == InitBatch /\ [][NextBatch]_vars

\* the graphs of the files that parsed, in input order
RECURSIVE ParsedGraphs(_, _)
ParsedGraphs(fs, i) ==
    IF i > Len(fs) THEN <<>>
    ELSE IF fs[i].raises = None THEN <<fs[i].graph>> \o ParsedGraphs(fs, i + 1)
    ELSE ParsedGraphs(fs, i + 1)

\* C22: whatever files parse or fail (unreadable, invalid input, graph
\* construction error), parse_multiple_files raises nothing and returns the
\* merge, in input order, of exactly the graphs of the files that parsed;
\* it returns the empty graph when every file fails.
C22_BatchIsolatesFailures ==
    Called("parse_multiple_files") =>
        LET parsed == ParsedGraphs(files, 1)
        IN /\ result.kind = "ok"
           /\ parsed = <<>> => graph = EmptyGraph
           /\ parsed # <<>> => result = merge_graphs(parsed)
           /\ Range(graph.nodes) = AllNames(parsed)
           /\ \A n \in Range(graph.nodes) :
                 \E i \in 1..Len(parsed) :
                    /\ n \in Range(parsed[i].nodes)
                    /\ \A j \in 1..(i - 1) : n \notin Range(parsed[j].nodes)
                    /\ graph.node[n] = parsed[i].node[n]

\* the first file is unreadable, the second one parses: its graph is returned
C22_Witness ==
    /\ Called("parse_multiple_files")
    /\ Len(files) = 2
    /\ files[1].raises = "OSError"
    /\ files[2].raises = None
    /\ files[2].graph.nodes = <<"A", "B">>
    /\ Len(files[2].graph.edges) = 1
    /\ graph = files[2].graph

\* every file fails and the empty graph is returned
C22_WitnessAllFail ==
    /\ Called("parse_multiple_files")
    /\ Len(files) = 2
    /\ files[1].raises = "InvalidYAMLError"
    /\ files[2].raises = "GraphError"
    /\ graph = EmptyGraph

\* ------------------------------------------- claims: extract_edges output
\* C25: for every entity mapping passed to extract_edges, every returned
\* edge joins two different names of the mapping, so DependencyGraph built
\* from the mapping and the returned edges passes the endpoint check and
\* has no self-loop.
C25_EdgesFitTheMapping ==
    pc = "returned" =>
        /\ result.kind = "ok"
        /\ \A i \in 1..Len(result.value) :
              /\ result.value[i].from_node # result.value[i].to_node
              /\ result.value[i].from_node \in Range(nodes)
              /\ result.value[i].to_node \in Range(nodes)
        /\ ~HasBadEndpoint(nodes, result.value)
        /\ \A n \in Range(nodes) :
              n \notin Range(get_dependents(NewGraph(nodes, result.value), n))

\* A was found to depend on itself and B on A: only A -> B is returned
C25_Witness ==
    /\ pc = "returned"
    /\ <<"A", "A">> \in DOMAIN first_found
    /\ nodes = <<"A", "B">>
    /\ Len(result.value) = 1
    /\ result.value[1].from_node = "A" /\ result.value[1].to_node = "B"

\* ================================== to_json_struct and load_graph_json
\* the longest edge list of an exchanged graph
MaxJsonEdges == 1

\* the entity names of the exchanged graphs
JsonNames == <<"A", "B">>

\* the members of the enumerations NodeKind and DependencyType with the
\* value of each
EnumValues ==
    {<<"NodeKind.VARIABLE", "variable">>, <<"NodeKind.QUESTION", "question">>,
     <<"NodeKind.RULE", "rule">>, <<"NodeKind.ASSEMBLY_LINE", "assembly_line">>,
     <<"DependencyType.EXPLICIT", "explicit">>,
     <<"DependencyType.IMPLICIT", "implicit">>}

\* member.value
EnumValue(member) == (CHOOSE p \in EnumValues : p[1] = member)[2]

\* NodeKind(value): the member with that value
NodeKindOf(value) ==
    (CHOOSE p \in EnumValues :
        p[2] = value /\ p[1] \in {"NodeKind.VARIABLE", "NodeKind.QUESTION",
                                  "NodeKind.RULE", "NodeKind.ASSEMBLY_LINE"})[1]

\* DependencyType(value): the member with that value
DependencyTypeOf(value) ==
    (CHOOSE p \in EnumValues :
        p[2] = value /\ p[1] \in {"DependencyType.EXPLICIT",
                                  "DependencyType.IMPLICIT"})[1]

\* a metadata value: a dict with its items, or None
PyDict(items) == [type |-> "dict", items |-> items]
PyNone == [type |-> "NoneType", items |-> {}]

\* bool(value)
Truthy(value) == value.type = "dict" /\ value.items # {}

\* types.Node and types.Edge with all their fields
FullNode(name, kind, source, authority, file_path, line_number, metadata) ==
    [name |-> name, kind |-> kind, source |-> source, authority |-> authority,
     file_path |-> file_path, line_number |-> line_number, metadata |-> metadata]

FullEdge(from_node, to_node, dep_type, file_path, line_number, metadata) ==
    [from_node |-> from_node, to_node |-> to_node, dep_type |-> dep_type,
     file_path |-> file_path, line_number |-> line_number, metadata |-> metadata]

\* node.metadata if node.metadata else None
metadata_to_json(metadata) == IF Truthy(metadata) THEN metadata ELSE PyNone

\* DependencyGraph.to_json_struct
to_json_struct(g) ==
    [nodes |->
        [i \in 1..Len(g.nodes) |->
            LET node == g.node[g.nodes[i]]
            IN [name |-> node.name,
                kind |-> EnumValue(node.kind),
                source |-> node.source,
                authority |-> node.authority,
                file_path |-> node.file_path,
                line_number |-> node.line_number,
                metadata |-> metadata_to_json(node.metadata)]],
     edges |->
        [i \in 1..Len(g.edges) |->
            LET edge == g.edges[i]
            IN [from |-> edge.from_node,
                to |-> edge.to_node,
                type |-> EnumValue(edge.dep_type),
                file_path |-> edge.file_path,
                line_number |-> edge.line_number,
                metadata |-> metadata_to_json(edge.metadata)]]]

\* data.get('metadata', {}): the default is used only for a missing key
GetMetadata(data) == IF "metadata" \in DOMAIN data THEN data.metadata ELSE PyDict({})

\* nodes[node_data['name']] = Node(...), in the order of the list; b holds
\* the keys in insertion order and the Node of each key
RECURSIVE load_nodes(_, _, _)
load_nodes(nodes_list, i, b) ==
    IF i > Len(nodes_list) THEN b
    ELSE LET node_data == nodes_list[i]
             node == FullNode(node_data.name, NodeKindOf(node_data.kind),
                              node_data.source, node_data.authority,
                              node_data.file_path, node_data.line_number,
                              GetMetadata(node_data))
         IN load_nodes(nodes_list, i + 1,
                [keys |-> IF node_data.name \in Range(b.keys) THEN b.keys
                          ELSE Append(b.keys, node_data.name),
                 node |-> [n \in DOMAIN b.node \cup {node_data.name} |->
                              IF n = node_data.name THEN node ELSE b.node[n]]])

load_edges(edges_list) ==
    [i \in 1..Len(edges_list) |->
        LET edge_data == edges_list[i]
        IN FullEdge(edge_data.from, edge_data.to, DependencyTypeOf(edge_data.type),
                    edge_data.file_path, edge_data.line_number,
                    GetMetadata(edge_data))]

\* the body of load_graph_json after json.load: the graph rebuilt from
\* graph_dict, or the StorageError that wraps the constructor's error
load_graph_json(graph_dict) ==
    LET b == load_nodes(graph_dict.nodes, 1, [keys |-> <<>>, node |-> EmptyDict])
        es == load_edges(graph_dict.edges)
    IN IF HasBadEndpoint(b.keys, es)
       THEN Raised("StorageError")
       ELSE Returned(NodeGraph(b.keys, b.node, es))

\* the entities and edges written by the parser: without provenance and
\* metadata, or with all of it
JsonNodes(n) ==
    {FullNode(n, "NodeKind.VARIABLE", "user_input", None, None, None, PyDict({})),
     FullNode(n, "NodeKind.QUESTION", "derived", "CPLR 3211", "interview.yml", 42,
              PyDict({<<"reviewed", "yes">>})),
     FullNode(n, "NodeKind.RULE", "derived", None, "interview.yml", 7, PyDict({})),
     FullNode(n, "NodeKind.ASSEMBLY_LINE", "user_input", None, None, None,
              PyDict({<<"reviewed", "no">>}))}

JsonEdges(u, v) ==
    {FullEdge(u, v, "DependencyType.EXPLICIT", None, None, PyDict({})),
     FullEdge(u, v, "DependencyType.IMPLICIT", "interview.yml", 43,
              PyDict({<<"rule", "regex">>})),
     FullEdge(u, v, "DependencyType.IMPLICIT", "interview.yml", 44, PyDict({}))}

JsonEdgeLists(ns) ==
    UNION {[1..n -> UNION {JsonEdges(u, v) : u, v \in Range(ns)}] : n \in 0..MaxJsonEdges}

\* the node mappings over the names ns
RECURSIVE JsonNodeMaps(_)
JsonNodeMaps(ns) ==
    IF ns = <<>> THEN {EmptyDict}
    ELSE {[n \in DOMAIN m \cup {Head(ns)} |-> IF n = Head(ns) THEN node ELSE m[n]] :
             m \in JsonNodeMaps(Tail(ns)), node \in JsonNodes(Head(ns))}

InitJson ==
    /\ \E k \in 0..Len(JsonNames) :
          LET ns == SubSeq(JsonNames, 1, k)
          IN \E node \in JsonNodeMaps(ns), es \in JsonEdgeLists(ns) :
                graph = NodeGraph(ns, node, es)
    /\ nodes = <<>> /\ edges = <<>>
    /\ pc = "built"
    /\ cache = EmptyDict
    /\ op = NoOp
    /\ result = NoResult
    /\ ValidatorIdle /\ CompareIdle /\ MergeIdle /\ ExtractIdle
    /\ LayersIdle /\ BatchIdle /\ InstancesIdle

\* the graph is rebuilt from graph.to_json_struct() as load_graph_json does
RoundTrip ==
    /\ pc = "built"
    /\ result' = load_graph_json(to_json_struct(graph))
    /\ op' = [name |-> "load_graph_json", args |-> <<>>]
    /\ pc' = "done"
    /\ UNCHANGED <<nodes, edges, graph, cache>>
    /\ UNCHANGED <<validatorVars, compareVars, mergeVars, extractVars>>
    /\ UNCHANGED <<layerVars, batchVars, instanceVars>>

NextJson == RoundTrip

SpecJson == InitJson /\ [][NextJson]_vars

\* C21 as claimed: the graph rebuilt from to_json_struct(G) has the entities
\* and edges of G, equal in every exchanged field, metadata included, also
\* when a metadata mapping is empty.
C21_AsClaimed ==
    Called("load_graph_json") =>
        /\ result.kind = "ok"
        /\ result.value.nodes = graph.nodes
        /\ result.value.node = graph.node
        /\ result.value.edges = graph.edges

====
